---- MODULE Spec2Model ----
(***************************************************************************)
(* A model of r/src/altrep.cpp: the ALTREP vectors that shadow an Arrow    *)
(* ChunkedArray (data1) and materialize a standard R vector (data2) at     *)
(* most once.                                                              *)
(***************************************************************************)
EXTENDS Integers, Sequences, FiniteSets, TLC

VARIABLES alt, skip_nul, last

vars == <<alt, skip_nul, last>>

(***************************************************************************)
(* Bounds of the model.                                                    *)
(***************************************************************************)
\* chunks of one ChunkedArray
MaxChunks == 2
\* elements of one ChunkedArray
MaxLen == 3

(***************************************************************************)
(* Numbers.  TLC's integers are 32 bits wide, so an int64_t and the        *)
(* integral value of a double are kept as two limbs: hi * 2^16 + lo.       *)
(* With at most MaxLen int32 summands neither the int64_t accumulator nor  *)
(* the 53-bit mantissa of a double is exceeded.                            *)
(***************************************************************************)
INT32_MAX == 2147483647
INT32_MIN == -INT32_MAX - 1

Limb == 2^16

Wide(v) == [hi |-> v \div Limb, lo |-> v % Limb]

WideAdd(a, b) ==
  [hi |-> a.hi + b.hi + ((a.lo + b.lo) \div Limb), lo |-> (a.lo + b.lo) % Limb]

WideLt(a, b) == a.hi < b.hi \/ (a.hi = b.hi /\ a.lo < b.lo)

\* the comparison of Sum with INT32_MIN taken as <
WideLe_Less(a, b) == WideLt(a, b)

WideLe(a, b) == a = b \/ WideLt(a, b)

\* static_cast<int>(value): the low 32 bits, read as signed
WideToInt(w) == (((w.hi + 2^15) % Limb) - 2^15) * Limb + w.lo

\* a finite double holding the integral value w
Double(w) == [k |-> "num", m |-> w]

NA_REAL == [k |-> "na", m |-> Wide(0)]
R_PosInf == [k |-> "inf", m |-> Wide(1)]
R_NegInf == [k |-> "inf", m |-> Wide(-1)]
NA_INTEGER == INT32_MIN

Min2(a, b) == IF a < b THEN a ELSE b

(***************************************************************************)
(* R values.  A vector is an object with an address (id), a type, its      *)
(* elements and its attributes; R_NilValue is the one object at address 0. *)
(***************************************************************************)
NoAttrib == [levels |-> <<>>, class |-> ""]

R_NilValue == [id |-> 0, type |-> "NILSXP", data |-> <<>>, attrib |-> NoAttrib]

Rf_isNull(x) == x = R_NilValue

Rf_ScalarReal(d) == [type |-> "REALSXP", ival |-> 0, rval |-> d]

Rf_ScalarInteger(n) == [type |-> "INTSXP", ival |-> n, rval |-> Double(Wide(0))]

nullptr == [base |-> "nullptr", id |-> 0]

\* the address of the elements of the R vector x
DATAPTR(x) == [base |-> "data2", id |-> x.id]

(***************************************************************************)
(* The Arrow side: an Array is its value buffer and its validity bitmap;   *)
(* a ChunkedArray is its type and its chunks.                              *)
(***************************************************************************)
ArrayLength(array) == Len(array.values)

IsNull(array, j) == ~array.valid[j + 1]

ArrayNullCount(array) == Cardinality({j \in 1..Len(array.valid) : ~array.valid[j]})

RECURSIVE SumOver(_, _)
SumOver(f, n) == IF n = 0 THEN 0 ELSE f[n] + SumOver(f, n - 1)

num_chunks(ca) == Len(ca.chunks)

length(ca) == SumOver([c \in 1..Len(ca.chunks) |-> ArrayLength(ca.chunks[c])], Len(ca.chunks))

null_count(ca) ==
  SumOver([c \in 1..Len(ca.chunks) |-> ArrayNullCount(ca.chunks[c])], Len(ca.chunks))

\* Array::Slice(offset, length): the length is clipped to the array
ArraySlice(array, off, len) ==
  LET l == Min2(ArrayLength(array) - off, len)
  IN  [array EXCEPT !.values = SubSeq(array.values, off + 1, off + l),
                    !.valid = SubSeq(array.valid, off + 1, off + l)]

RECURSIVE SliceSkip(_, _, _)
SliceSkip(chunks, curr, off) ==
  IF curr < Len(chunks) /\ off >= ArrayLength(chunks[curr + 1])
    THEN SliceSkip(chunks, curr + 1, off - ArrayLength(chunks[curr + 1]))
    ELSE [curr |-> curr, off |-> off]

RECURSIVE SliceTake(_, _, _, _)
SliceTake(chunks, curr, off, len) ==
  IF curr < Len(chunks) /\ len > 0
    THEN <<ArraySlice(chunks[curr + 1], off, len)>>
           \o SliceTake(chunks, curr + 1, 0, len - (ArrayLength(chunks[curr + 1]) - off))
    ELSE <<>>

\* ChunkedArray::Slice(offset, length), for offset <= length(ca)
Slice(ca, offset, len) ==
  LET s == SliceSkip(ca.chunks, 0, offset)
  IN  [ca EXCEPT !.chunks =
        IF num_chunks(ca) > 0 /\ (offset = length(ca) \/ len = 0)
          THEN <<ArraySlice(ca.chunks[Min2(s.curr, num_chunks(ca) - 1) + 1], 0, 0)>>
          ELSE SliceTake(ca.chunks, s.curr, s.off, len)]

(***************************************************************************)
(* altrep.cpp                                                              *)
(***************************************************************************)
GetChunkedArray(a) == a.data1

NoArray == [values |-> <<>>, valid |-> <<>>]

\* the search reporting the first chunk as the position, wherever it ends
RECURSIVE ArrayResolveFrom_First(_, _, _)
ArrayResolveFrom_First(chunked_array, idx_chunk, i) ==
  IF idx_chunk < num_chunks(chunked_array)
    THEN LET chunk == chunked_array.chunks[idx_chunk + 1]
             chunk_size == ArrayLength(chunk)
         IN  IF i < chunk_size
               THEN [array_ |-> chunk, index_ |-> i, position_ |-> 0]
               ELSE ArrayResolveFrom_First(chunked_array, idx_chunk + 1, i - chunk_size)
    ELSE [array_ |-> NoArray, index_ |-> 0, position_ |-> 0]

RECURSIVE ArrayResolveFrom(_, _, _)
ArrayResolveFrom(chunked_array, idx_chunk, i) ==
  IF idx_chunk < num_chunks(chunked_array)
    THEN LET chunk == chunked_array.chunks[idx_chunk + 1]
             chunk_size == ArrayLength(chunk)
         IN  IF i < chunk_size
               THEN [array_ |-> chunk, index_ |-> i, position_ |-> idx_chunk]
               ELSE ArrayResolveFrom(chunked_array, idx_chunk + 1, i - chunk_size)
    ELSE [array_ |-> NoArray, index_ |-> 0, position_ |-> 0]

ArrayResolve(chunked_array, i) == ArrayResolveFrom(chunked_array, 0, i)

IsFactor(a) == a.class = "array_factor"

IsString(a) == a.class \in {"array_string_vector", "array_large_string_vector"}

IsPrimitive(a) == a.class \in {"array_dbl_vector", "array_int_vector"}

\* AltrepVectorBase::Representation, overridden by AltrepFactor
Representation(a) == IF IsFactor(a) THEN a.data2.car ELSE a.data2

\* SetRepresentation of a factor putting a new pairlist in data2
SetRepresentation_NewList(a, x) ==
  IF IsFactor(a) THEN [a EXCEPT !.data2 = [car |-> x, cadr |-> R_NilValue]]
  ELSE [a EXCEPT !.data2 = x]

\* AltrepVectorBase::SetRepresentation, overridden by AltrepFactor
SetRepresentation(a, x) ==
  IF IsFactor(a) THEN [a EXCEPT !.data2.car = x] ELSE [a EXCEPT !.data2 = x]

IsMaterialized(a) == ~Rf_isNull(Representation(a))

\* the number of elements, as every method of this file reads it
XLength(a) == length(GetChunkedArray(a))

\* what a call hands back: the object after the call, the R vectors it
\* allocated, the returned value, whether it ended in an R error, and the
\* warnings it raised
Ret(a, allocs, v) ==
  [alt |-> a, allocs |-> allocs, value |-> v, error |-> FALSE, warnings |-> 0]

\* an address no live vector has: the representation is the one vector that
\* outlives a call
FreshAddress(a) == IF IsMaterialized(a) THEN Representation(a).id + 1 ELSE 1

Length(a) == Ret(a, 0, length(GetChunkedArray(a)))

No_NA(a) == Ret(a, 0, null_count(GetChunkedArray(a)) = 0)

(***************************************************************************)
(* AltrepVectorPrimitive<sexp_type>                                        *)
(***************************************************************************)
IsReal(a) == a.class = "array_dbl_vector"

sexp_type(a) == IF IsReal(a) THEN "REALSXP" ELSE "INTSXP"

\* cpp11::na<c_type>()
na(a) == IF IsReal(a) THEN NA_REAL ELSE NA_INTEGER

\* cpp11::as_sexp of one c_type value
as_sexp(a, v) == IF IsReal(a) THEN Rf_ScalarReal(v) ELSE Rf_ScalarInteger(v)

\* REAL_GET_REGION / INTEGER_GET_REGION on a standard R vector
Standard_Get_region(data2, i, n) ==
  LET size == Len(data2.data)
      ncopy == IF size - i > n THEN n ELSE size - i
  IN  [ncopy |-> ncopy, buf |-> SubSeq(data2.data, i + 1, i + ncopy)]

\* Get_region without the pass that writes the NA sentinels
PrimitiveCopyArray_NoSentinel(a, array) ==
  [j \in 1..ArrayLength(array) |-> array.values[j]]

\* one pass of the loop of Get_region: memcpy of the values, then the NA
\* sentinels where the bitmap is not set
PrimitiveCopyArray(a, array) ==
  [j \in 1..ArrayLength(array) |->
     IF ArrayNullCount(array) > 0 /\ ~array.valid[j] THEN na(a) ELSE array.values[j]]

RECURSIVE PrimitiveCopyChunks(_, _, _)
PrimitiveCopyChunks(a, chunks, c) ==
  IF c > Len(chunks) THEN <<>>
  ELSE PrimitiveCopyArray(a, chunks[c]) \o PrimitiveCopyChunks(a, chunks, c + 1)

\* Get_region reporting the count it was asked for
Primitive_Get_region_Unclipped(a, i, n) ==
  IF IsMaterialized(a)
    THEN Ret(a, 0, Standard_Get_region(Representation(a), i, n))
    ELSE LET slice == Slice(GetChunkedArray(a), i, n)
         IN  Ret(a, 0, [ncopy |-> n, buf |-> PrimitiveCopyChunks(a, slice.chunks, 1)])

Primitive_Get_region(a, i, n) ==
  IF IsMaterialized(a)
    THEN Ret(a, 0, Standard_Get_region(Representation(a), i, n))
    ELSE LET slice == Slice(GetChunkedArray(a), i, n)
         IN  Ret(a, 0, [ncopy |-> length(slice),
                        buf |-> PrimitiveCopyChunks(a, slice.chunks, 1)])

\* Rf_allocVector(type, size) at address id: the elements are not initialised,
\* a cell that is never written reads as the arbitrary value uninit
AllocFilled(id, type, size, written, uninit) ==
  [id |-> id, type |-> type,
   data |-> [k \in 1..size |-> IF k <= Len(written) THEN written[k] ELSE uninit],
   attrib |-> NoAttrib]

\* Materialize without the IsMaterialized test
Primitive_Materialize_Again(a, uninit) ==
  LET size == Length(a).value
      region == Primitive_Get_region(a, 0, size).value
      copy == AllocFilled(FreshAddress(a), sexp_type(a), size, region.buf, uninit)
      a2 == SetRepresentation(a, copy)
  IN  Ret(a2, 1, Representation(a2))

Primitive_Materialize(a, uninit) ==
  IF ~IsMaterialized(a)
    THEN LET size == Length(a).value
             region == Primitive_Get_region(a, 0, size).value
             copy == AllocFilled(FreshAddress(a), sexp_type(a), size, region.buf, uninit)
             a2 == SetRepresentation(a, copy)
         IN  Ret(a2, 1, Representation(a2))
    ELSE Ret(a, 0, Representation(a))

\* chunk(0)->data()->GetValues<c_type>(1): the address of the Arrow buffer
GetValues(chunked_array) == [base |-> "chunk", id |-> 0]

\* Dataptr_or_null without the null_count test
Primitive_Dataptr_or_null_Nulls(a) ==
  IF IsMaterialized(a)
    THEN Ret(a, 0, DATAPTR(Representation(a)))
    ELSE LET chunked_array == GetChunkedArray(a)
         IN  IF num_chunks(chunked_array) = 1
               THEN Ret(a, 0, GetValues(chunked_array))
               ELSE Ret(a, 0, nullptr)

Primitive_Dataptr_or_null(a) ==
  IF IsMaterialized(a)
    THEN Ret(a, 0, DATAPTR(Representation(a)))
    ELSE LET chunked_array == GetChunkedArray(a)
         IN  IF num_chunks(chunked_array) = 1 /\ null_count(chunked_array) = 0
               THEN Ret(a, 0, GetValues(chunked_array))
               ELSE Ret(a, 0, nullptr)

Primitive_Dataptr(a, writeable, uninit) ==
  IF ~IsMaterialized(a) /\ num_chunks(GetChunkedArray(a)) = 1
       /\ null_count(GetChunkedArray(a)) = 0
    THEN Ret(a, 0, GetValues(GetChunkedArray(a)))
    ELSE LET m == Primitive_Materialize(a, uninit)
         IN  Ret(m.alt, m.allocs, DATAPTR(m.value))

Primitive_Elt(a, i) ==
  LET resolve == ArrayResolve(GetChunkedArray(a), i)
      array == resolve.array_
      j == resolve.index_
  IN  Ret(a, 0, IF IsNull(array, j) THEN na(a) ELSE array.values[j + 1])

(***************************************************************************)
(* The aggregate kernels of the columnar library, called with              *)
(* ScalarAggregateOptions{skip_nulls, min_count = 0}.                      *)
(***************************************************************************)
RECURSIVE ValidValuesOf(_, _)
ValidValuesOf(array, j) ==
  IF j > ArrayLength(array) THEN <<>>
  ELSE (IF array.valid[j] THEN <<array.values[j]>> ELSE <<>>) \o ValidValuesOf(array, j + 1)

RECURSIVE ValidValues(_, _)
ValidValues(chunked_array, c) ==
  IF c > num_chunks(chunked_array) THEN <<>>
  ELSE ValidValuesOf(chunked_array.chunks[c], 1) \o ValidValues(chunked_array, c + 1)

\* the exact value of one element, as the accumulator of "sum" sees it
Widen(chunked_array, v) == IF chunked_array.type = "double" THEN v.m ELSE Wide(v)

CellLt(chunked_array, x, y) ==
  IF chunked_array.type = "double" THEN WideLt(x.m, y.m) ELSE x < y

RECURSIVE WideSum(_, _, _)
WideSum(chunked_array, vs, k) ==
  IF k > Len(vs) THEN Wide(0)
  ELSE WideAdd(Widen(chunked_array, vs[k]), WideSum(chunked_array, vs, k + 1))

RECURSIVE Least(_, _, _)
Least(chunked_array, vs, k) ==
  IF k = Len(vs) THEN vs[k]
  ELSE LET r == Least(chunked_array, vs, k + 1)
       IN  IF CellLt(chunked_array, r, vs[k]) THEN r ELSE vs[k]

RECURSIVE Greatest(_, _, _)
Greatest(chunked_array, vs, k) ==
  IF k = Len(vs) THEN vs[k]
  ELSE LET r == Greatest(chunked_array, vs, k + 1)
       IN  IF CellLt(chunked_array, vs[k], r) THEN r ELSE vs[k]

\* "sum": an Int64Scalar for int32 input, a DoubleScalar for double input;
\* null when a null is not skipped
CallSum(chunked_array, skip_nulls) ==
  [is_valid |-> skip_nulls \/ null_count(chunked_array) = 0,
   value |-> WideSum(chunked_array, ValidValues(chunked_array, 1), 1)]

\* "min_max": a struct of two scalars of the input type; null when a null is
\* not skipped or no value is left
CallMinMax(chunked_array, skip_nulls) ==
  LET vs == ValidValues(chunked_array, 1)
      some == Len(vs) > 0 /\ (skip_nulls \/ null_count(chunked_array) = 0)
      zero == IF chunked_array.type = "double" THEN Double(Wide(0)) ELSE 0
  IN  [is_valid |-> some,
       min |-> IF some THEN Least(chunked_array, vs, 1) ELSE zero,
       max |-> IF some THEN Greatest(chunked_array, vs, 1) ELSE zero]

(***************************************************************************)
(* AltrepVectorPrimitive<sexp_type>: Min, Max, Sum                         *)
(***************************************************************************)
\* MinMax without the branch of the empty reduction
MinMax_NoEmpty(a, IsMin, narm) ==
  LET chunked_array == GetChunkedArray(a)
      na_rm == narm
      nulls == null_count(chunked_array)
  IN  IF ~na_rm /\ nulls > 0
        THEN Ret(a, 0, as_sexp(a, na(a)))
      ELSE LET minmax == CallMinMax(chunked_array, na_rm)
           IN  Ret(a, 0, as_sexp(a, IF IsMin THEN minmax.min ELSE minmax.max))

MinMax(a, IsMin, narm) ==
  LET chunked_array == GetChunkedArray(a)
      na_rm == narm
      n == length(chunked_array)
      nulls == null_count(chunked_array)
  IN  IF (na_rm \/ n = 0) /\ nulls = n
        THEN Ret(a, 0, Rf_ScalarReal(IF IsMin THEN R_PosInf ELSE R_NegInf))
      ELSE IF ~na_rm /\ nulls > 0
        THEN Ret(a, 0, as_sexp(a, na(a)))
      ELSE LET minmax == CallMinMax(chunked_array, na_rm)
           IN  Ret(a, 0, as_sexp(a, IF IsMin THEN minmax.min ELSE minmax.max))

\* Min computed on the materialized vector
Primitive_Min_Materialized(a, narm) ==
  LET m == Primitive_Materialize(a, na(a))
      r == MinMax(m.alt, TRUE, narm)
  IN  Ret(r.alt, m.allocs, r.value)

Primitive_Min(a, narm) == MinMax(a, TRUE, narm)

Primitive_Max(a, narm) == MinMax(a, FALSE, narm)

\* Sum without the test for an unskipped null
Primitive_Sum_NoSentinel(a, narm) ==
  LET chunked_array == GetChunkedArray(a)
      sum == CallSum(chunked_array, TRUE)
  IN  IF sexp_type(a) = "INTSXP"
        THEN LET value == sum.value
             IN  IF WideLe(value, Wide(INT32_MIN)) \/ WideLt(Wide(INT32_MAX), value)
                   THEN Ret(a, 0, Rf_ScalarReal(Double(value)))
                   ELSE Ret(a, 0, Rf_ScalarInteger(WideToInt(value)))
        ELSE Ret(a, 0, Rf_ScalarReal(Double(sum.value)))

\* Sum narrowing the 64-bit accumulator to int whatever its value
Primitive_Sum_Narrowed(a, narm) ==
  LET chunked_array == GetChunkedArray(a)
      na_rm == narm
      nulls == null_count(chunked_array)
  IN  IF ~na_rm /\ nulls > 0
        THEN Ret(a, 0, as_sexp(a, na(a)))
      ELSE LET sum == CallSum(chunked_array, na_rm)
           IN  IF sexp_type(a) = "INTSXP"
                 THEN Ret(a, 0, Rf_ScalarInteger(WideToInt(sum.value)))
                 ELSE Ret(a, 0, Rf_ScalarReal(Double(sum.value)))

Primitive_Sum(a, narm) ==
  LET chunked_array == GetChunkedArray(a)
      na_rm == narm
      nulls == null_count(chunked_array)
  IN  IF ~na_rm /\ nulls > 0
        THEN Ret(a, 0, as_sexp(a, na(a)))
      ELSE LET sum == CallSum(chunked_array, na_rm)
           IN  IF sexp_type(a) = "INTSXP"
                 THEN LET value == sum.value
                      IN  IF WideLe(value, Wide(INT32_MIN)) \/ WideLt(Wide(INT32_MAX), value)
                            THEN Ret(a, 0, Rf_ScalarReal(Double(value)))
                            ELSE Ret(a, 0, Rf_ScalarInteger(WideToInt(value)))
                 ELSE Ret(a, 0, Rf_ScalarReal(Double(sum.value)))

(***************************************************************************)
(* AltrepFactor.  data2 is a pairlist: its CAR is the representation, its  *)
(* CADR the transposed arrays when the dictionaries had to be unified.     *)
(***************************************************************************)
IntegerTypes ==
  {"UINT8", "INT8", "UINT16", "INT16", "UINT32", "INT32", "UINT64", "INT64"}

\* the dictionary of one chunk after the other: do they all equal the first?
DictionaryChunkArrayNeedUnification(chunked_array) ==
  /\ num_chunks(chunked_array) >= 2
  /\ \E i \in 2..num_chunks(chunked_array) :
       chunked_array.chunks[i].dictionary # chunked_array.chunks[1].dictionary

\* position of the label v in the sequence of labels d, from 0; Len(d) if absent
RECURSIVE IndexOf(_, _, _)
IndexOf(d, v, k) ==
  IF k > Len(d) THEN Len(d) ELSE IF d[k] = v THEN k - 1 ELSE IndexOf(d, v, k + 1)

\* DictionaryUnifier::Unify: every label of dict not seen before is appended
RECURSIVE UnifyInto(_, _, _)
UnifyInto(memo, dict, k) ==
  IF k > Len(dict) THEN memo
  ELSE UnifyInto(IF IndexOf(memo, dict[k], 1) = Len(memo) THEN Append(memo, dict[k]) ELSE memo,
                 dict, k + 1)

\* the state of the unifier after the dictionaries of chunks 1..c
RECURSIVE UnifierAfter(_, _)
UnifierAfter(chunked_array, c) ==
  IF c = 0 THEN <<>>
  ELSE UnifyInto(UnifierAfter(chunked_array, c - 1), chunked_array.chunks[c].dictionary, 1)

\* the transpose buffer Unify hands back for chunk c
TransposeOf(chunked_array, c) ==
  LET memo == UnifierAfter(chunked_array, c)
      dict == chunked_array.chunks[c].dictionary
  IN  [k \in 1..Len(dict) |-> IndexOf(memo, dict[k], 1)]

\* an external pointer to the vector of transpose buffers
BufferVectorPointer(arrays_transpose) ==
  [id |-> -1, type |-> "EXTPTRSXP", data |-> arrays_transpose, attrib |-> NoAttrib]

WasUnified(a) == ~Rf_isNull(a.data2.cadr)

GetArrayTransposed(a, i) == a.data2.cadr.data[i + 1]

\* AltrepFactor::Make; made is FALSE where Make returns R_NilValue
Factor_Make(chunked_array) ==
  LET need_unification == DictionaryChunkArrayNeedUnification(chunked_array)
      n_arrays == num_chunks(chunked_array)
      dictionary == IF need_unification
                      THEN UnifierAfter(chunked_array, n_arrays)
                      ELSE chunked_array.chunks[1].dictionary
      pointer_arrays_transpose ==
        IF need_unification
          THEN BufferVectorPointer([i \in 1..n_arrays |-> TransposeOf(chunked_array, i)])
          ELSE R_NilValue
  IN  [made |-> chunked_array.value_type = "STRING",
       alt |-> [class |-> "array_factor",
                data1 |-> chunked_array,
                data2 |-> [car |-> R_NilValue, cadr |-> pointer_arrays_transpose],
                attrib |-> [levels |-> dictionary,
                            class |-> IF chunked_array.ordered THEN "ordered" ELSE "factor"]]]

\* GetRegionTranspose over one array of the slice; transpose_data is the
\* buffer of its chunk, or <<>> for the identity
FactorCopyArray(array, unified, transpose_data) ==
  [j \in 1..ArrayLength(array) |->
     IF array.valid[j]
       THEN (IF unified THEN transpose_data[array.values[j] + 1] ELSE array.values[j]) + 1
       ELSE NA_INTEGER]

\* GetRegionDispatch: nothing is written unless the indices are integers
FactorRegionDispatch(chunked_array, array, unified, transpose_data, uninit) ==
  IF chunked_array.index_type \in IntegerTypes
    THEN FactorCopyArray(array, unified, transpose_data)
    ELSE [j \in 1..ArrayLength(array) |-> uninit]

\* Get_region taking the transpose buffers from the first chunk on, wherever
\* the slice starts
FirstChunkOf_Start(chunked_array, start, j, k) == 0

\* the first chunk of the chunked array that is present in the slice
RECURSIVE FirstChunkOf(_, _, _, _)
FirstChunkOf(chunked_array, start, j, k) ==
  IF j < num_chunks(chunked_array)
    THEN LET nj == ArrayLength(chunked_array.chunks[j + 1])
         IN  IF k + nj > start THEN j ELSE FirstChunkOf(chunked_array, start, j + 1, k + nj)
    ELSE j

RECURSIVE FactorCopyChunks(_, _, _, _, _)
FactorCopyChunks(a, chunks, c, j, uninit) ==
  IF c > Len(chunks) THEN <<>>
  ELSE FactorRegionDispatch(GetChunkedArray(a), chunks[c], WasUnified(a),
                            IF WasUnified(a) THEN GetArrayTransposed(a, j) ELSE <<>>, uninit)
         \o FactorCopyChunks(a, chunks, c + 1, j + 1, uninit)

Factor_Get_region(a, start, n, uninit) ==
  IF IsMaterialized(a)
    THEN Ret(a, 0, Standard_Get_region(Representation(a), start, n))
    ELSE LET chunked_array == GetChunkedArray(a)
         IN  IF start >= length(chunked_array)
               THEN Ret(a, 0, [ncopy |-> 0, buf |-> <<>>])
               ELSE LET slice == Slice(chunked_array, start, n)
                        j == FirstChunkOf(chunked_array, start, 0, 0)
                    IN  Ret(a, 0, [ncopy |-> length(slice),
                                   buf |-> FactorCopyChunks(a, slice.chunks, 1, j, uninit)])

\* Materialize without the IsMaterialized test
Factor_Materialize_Again(a, uninit) ==
  LET size == Length(a).value
      region == Factor_Get_region(a, 0, size, uninit).value
      copy == AllocFilled(FreshAddress(a), "INTSXP", size, region.buf, uninit)
      a2 == SetRepresentation(a, copy)
  IN  Ret(a2, 1, Representation(a2))

Factor_Materialize(a, uninit) ==
  IF ~IsMaterialized(a)
    THEN LET size == Length(a).value
             region == Factor_Get_region(a, 0, size, uninit).value
             copy == AllocFilled(FreshAddress(a), "INTSXP", size, region.buf, uninit)
             a2 == SetRepresentation(a, copy)
         IN  Ret(a2, 1, Representation(a2))
    ELSE Ret(a, 0, Representation(a))

\* Dataptr_or_null handing out the buffer of the indices of a single chunk
\* without nulls, as the numeric vectors do
Factor_Dataptr_or_null_Chunk(a) ==
  IF IsMaterialized(a)
    THEN Ret(a, 0, DATAPTR(Representation(a)))
    ELSE LET chunked_array == GetChunkedArray(a)
         IN  IF num_chunks(chunked_array) = 1 /\ null_count(chunked_array) = 0
               THEN Ret(a, 0, GetValues(chunked_array))
               ELSE Ret(a, 0, nullptr)

Factor_Dataptr_or_null(a) ==
  IF IsMaterialized(a) THEN Ret(a, 0, DATAPTR(Representation(a))) ELSE Ret(a, 0, nullptr)

Factor_Dataptr(a, writeable, uninit) ==
  LET m == Factor_Materialize(a, uninit)
  IN  Ret(m.alt, m.allocs, DATAPTR(m.value))

\* Elt reading the index of the chunk as the code, unified or not
Factor_Elt_Untransposed(a, i) ==
  IF IsMaterialized(a)
    THEN Ret(a, 0, Representation(a).data[i + 1])
    ELSE LET resolve == ArrayResolve(GetChunkedArray(a), i)
             array == resolve.array_
             j == resolve.index_
         IN  IF ~IsNull(array, j) /\ GetChunkedArray(a).index_type \in IntegerTypes
               THEN Ret(a, 0, array.values[j + 1] + 1)
               ELSE Ret(a, 0, NA_INTEGER)

\* Elt handing out the index in the levels as it is, from 0
Factor_Elt_FromZero(a, i) ==
  IF IsMaterialized(a)
    THEN Ret(a, 0, Representation(a).data[i + 1])
    ELSE LET resolve == ArrayResolve(GetChunkedArray(a), i)
             array == resolve.array_
             j == resolve.index_
         IN  IF ~IsNull(array, j) /\ GetChunkedArray(a).index_type \in IntegerTypes
               THEN IF WasUnified(a)
                      THEN Ret(a, 0, GetArrayTransposed(a, resolve.position_)
                                       [array.values[j + 1] + 1])
                      ELSE Ret(a, 0, array.values[j + 1])
               ELSE Ret(a, 0, NA_INTEGER)

Factor_Elt(a, i) ==
  IF IsMaterialized(a)
    THEN Ret(a, 0, Representation(a).data[i + 1])
    ELSE LET resolve == ArrayResolve(GetChunkedArray(a), i)
             array == resolve.array_
             j == resolve.index_
         IN  IF ~IsNull(array, j) /\ GetChunkedArray(a).index_type \in IntegerTypes
               THEN IF WasUnified(a)
                      THEN Ret(a, 0, GetArrayTransposed(a, resolve.position_)
                                       [array.values[j + 1] + 1] + 1)
                      ELSE Ret(a, 0, array.values[j + 1] + 1)
               ELSE Ret(a, 0, NA_INTEGER)

\* Min, Max and Sum return nullptr: the method declines
Factor_Min(a, narm) == Ret(a, 0, nullptr)

Factor_Max(a, narm) == Ret(a, 0, nullptr)

\* Sum adding up the codes of the materialized vector
Factor_Sum_Computed(a, narm) ==
  LET m == Factor_Materialize(a, NA_INTEGER)
  IN  Ret(m.alt, m.allocs, Rf_ScalarInteger(Len(m.value.data)))

Factor_Sum(a, narm) == Ret(a, 0, nullptr)

(***************************************************************************)
(* AltrepVectorString<Type>.  A string is its sequence of bytes, 0 the nul *)
(* byte; a CHARSXP is NA_STRING or the bytes it was made of.               *)
(***************************************************************************)
NA_STRING == [is_na |-> TRUE, chars |-> <<>>]

Rf_mkCharLenCE(data, len) == [is_na |-> FALSE, chars |-> SubSeq(data, 1, len)]

\* the loop of RStringViewer::ConvertStripNul from byte i (from 0) on
RECURSIVE StripNulLoop(_, _, _, _, _)
StripNulLoop(view_, i, stripped_string_, stripped_len, nul_count) ==
  IF i >= Len(view_)
    THEN [stripped_string_ |-> stripped_string_, stripped_len |-> stripped_len]
  ELSE IF view_[i + 1] = 0
    THEN IF nul_count + 1 = 1
           THEN StripNulLoop(view_, i + 1, view_, i, nul_count + 1)
           ELSE StripNulLoop(view_, i + 1, stripped_string_, stripped_len, nul_count + 1)
  ELSE IF nul_count > 0
    THEN StripNulLoop(view_, i + 1,
                      [stripped_string_ EXCEPT ![stripped_len + 1] = view_[i + 1]],
                      stripped_len + 1, nul_count)
    ELSE StripNulLoop(view_, i + 1, stripped_string_, stripped_len, nul_count)

\* the outcome of one conversion: the CHARSXP, whether Error() was raised,
\* and whether nul_was_stripped_ was set
ConvertStripNul(view_) ==
  LET r == StripNulLoop(view_, 0, <<>>, 0, 0)
  IN  [value |-> Rf_mkCharLenCE(r.stripped_string_, r.stripped_len),
       error |-> FALSE, stripped |-> TRUE]

Convert(array_, i, strip_out_nuls_) ==
  IF IsNull(array_, i)
    THEN [value |-> NA_STRING, error |-> FALSE, stripped |-> FALSE]
    ELSE LET view_ == array_.values[i + 1]
             no_nul == \A k \in 1..Len(view_) : view_[k] # 0
         IN  IF no_nul
               THEN [value |-> Rf_mkCharLenCE(view_, Len(view_)),
                     error |-> FALSE, stripped |-> FALSE]
             ELSE IF strip_out_nuls_
               THEN ConvertStripNul(view_)
               ELSE [value |-> NA_STRING, error |-> TRUE, stripped |-> FALSE]

\* a call that ended in an R error: nothing is returned
Raise(a, allocs) ==
  [alt |-> a, allocs |-> allocs, value |-> R_NilValue, error |-> TRUE, warnings |-> 0]

\* Elt keeping the string it converted in a vector it stores in the object
String_Elt_Stored(a, i, strip) ==
  IF IsMaterialized(a)
    THEN Ret(a, 0, Representation(a).data[i + 1])
    ELSE LET resolve == ArrayResolve(GetChunkedArray(a), i)
             s == Convert(resolve.array_, resolve.index_, strip)
             data2 == [id |-> FreshAddress(a), type |-> "STRSXP",
                       data |-> [k \in 1..XLength(a) |->
                                   IF k = i + 1 THEN s.value ELSE NA_STRING],
                       attrib |-> NoAttrib]
         IN  IF s.error THEN Raise(a, 0)
             ELSE [Ret(SetRepresentation(a, data2), 1, s.value)
                     EXCEPT !.warnings = IF s.stripped THEN 1 ELSE 0]

String_Elt(a, i, strip) ==
  IF IsMaterialized(a)
    THEN Ret(a, 0, Representation(a).data[i + 1])
    ELSE LET resolve == ArrayResolve(GetChunkedArray(a), i)
             s == Convert(resolve.array_, resolve.index_, strip)
         IN  IF s.error THEN Raise(a, 0)
             ELSE [Ret(a, 0, s.value) EXCEPT !.warnings = IF s.stripped THEN 1 ELSE 0]

\* the conversions of the loop of Materialize, chunk after chunk
RECURSIVE ConvertChunks(_, _, _)
ConvertChunks(chunks, c, strip) ==
  IF c > Len(chunks) THEN <<>>
  ELSE [j \in 1..ArrayLength(chunks[c]) |-> Convert(chunks[c], j - 1, strip)]
         \o ConvertChunks(chunks, c + 1, strip)

\* Materialize storing data2 in the object before the loop
String_Materialize_Partial(a, strip) ==
  IF IsMaterialized(a)
    THEN Ret(a, 0, Representation(a))
    ELSE LET chunked_array == GetChunkedArray(a)
             done == ConvertChunks(chunked_array.chunks, 1, strip)
             data2 == [id |-> FreshAddress(a), type |-> "STRSXP",
                       data |-> [k \in 1..Len(done) |-> done[k].value],
                       attrib |-> NoAttrib]
         IN  IF \E k \in 1..Len(done) : done[k].error
               THEN Raise(SetRepresentation(a, data2), 1)
               ELSE [Ret(SetRepresentation(a, data2), 1, data2) EXCEPT
                       !.warnings = IF \E k \in 1..Len(done) : done[k].stripped
                                      THEN 1 ELSE 0]

\* Materialize warning at each conversion that stripped a nul
String_Materialize_WarnEach(a, strip) ==
  IF IsMaterialized(a)
    THEN Ret(a, 0, Representation(a))
    ELSE LET chunked_array == GetChunkedArray(a)
             done == ConvertChunks(chunked_array.chunks, 1, strip)
             data2 == [id |-> FreshAddress(a), type |-> "STRSXP",
                       data |-> [k \in 1..Len(done) |-> done[k].value],
                       attrib |-> NoAttrib]
         IN  IF \E k \in 1..Len(done) : done[k].error
               THEN Raise(a, 1)
               ELSE [Ret(SetRepresentation(a, data2), 1, data2) EXCEPT
                       !.warnings = Cardinality({k \in 1..Len(done) : done[k].stripped})]

String_Materialize(a, strip) ==
  IF IsMaterialized(a)
    THEN Ret(a, 0, Representation(a))
    ELSE LET chunked_array == GetChunkedArray(a)
             done == ConvertChunks(chunked_array.chunks, 1, strip)
             data2 == [id |-> FreshAddress(a), type |-> "STRSXP",
                       data |-> [k \in 1..Len(done) |-> done[k].value],
                       attrib |-> NoAttrib]
         IN  IF \E k \in 1..Len(done) : done[k].error
               THEN Raise(a, 1)
               ELSE [Ret(SetRepresentation(a, data2), 1, data2) EXCEPT
                       !.warnings = IF \E k \in 1..Len(done) : done[k].stripped
                                      THEN 1 ELSE 0]

String_Dataptr(a, writeable, strip) ==
  LET m == String_Materialize(a, strip)
  IN  IF m.error THEN m ELSE [m EXCEPT !.value = DATAPTR(m.value)]

String_Dataptr_or_null(a) ==
  IF IsMaterialized(a) THEN Ret(a, 0, DATAPTR(Representation(a))) ELSE Ret(a, 0, nullptr)

\* Set_elt storing v in the materialized vector
String_Set_elt_Stored(a, i, v) ==
  IF IsMaterialized(a)
    THEN Ret(SetRepresentation(a, [Representation(a) EXCEPT !.data[i + 1] = v]), 0, R_NilValue)
    ELSE Raise(a, 0)

String_Set_elt(a, i, v) == Raise(a, 0)

(***************************************************************************)
(* AltrepVectorBase<Impl>: the methods built on Impl::Materialize, and the *)
(* dispatch of each method on the class of the object.                     *)
(***************************************************************************)
Impl_Materialize(a, uninit, strip) ==
  CASE IsPrimitive(a) -> Primitive_Materialize(a, uninit)
    [] IsFactor(a) -> Factor_Materialize(a, uninit)
    [] OTHER -> String_Materialize(a, strip)

Impl_Elt(a, i, strip) ==
  CASE IsPrimitive(a) -> Primitive_Elt(a, i)
    [] IsFactor(a) -> Factor_Elt(a, i)
    [] OTHER -> String_Elt(a, i, strip)

Impl_Get_region(a, i, n, uninit) ==
  IF IsFactor(a) THEN Factor_Get_region(a, i, n, uninit) ELSE Primitive_Get_region(a, i, n)

Impl_Dataptr_or_null(a) ==
  CASE IsPrimitive(a) -> Primitive_Dataptr_or_null(a)
    [] IsFactor(a) -> Factor_Dataptr_or_null(a)
    [] OTHER -> String_Dataptr_or_null(a)

Impl_Dataptr(a, writeable, uninit, strip) ==
  CASE IsPrimitive(a) -> Primitive_Dataptr(a, writeable, uninit)
    [] IsFactor(a) -> Factor_Dataptr(a, writeable, uninit)
    [] OTHER -> String_Dataptr(a, writeable, strip)

Impl_Sum(a, narm) == IF IsFactor(a) THEN Factor_Sum(a, narm) ELSE Primitive_Sum(a, narm)

Impl_Min(a, narm) == IF IsFactor(a) THEN Factor_Min(a, narm) ELSE Primitive_Min(a, narm)

Impl_Max(a, narm) == IF IsFactor(a) THEN Factor_Max(a, narm) ELSE Primitive_Max(a, narm)

(***************************************************************************)
(* Materialize statement by statement: the vector is allocated, filled     *)
(* (by the one call of Get_region, or one string conversion at a time) and *)
(* then stored in the object.                                              *)
(***************************************************************************)
\* what Rf_allocVector(STRSXP, n) holds: the empty string
R_BlankString == [is_na |-> FALSE, chars |-> <<>>]

\* Materialize storing the vector in the object as soon as it is allocated
Materialize_Alloc_Stored(a, uninit) ==
  LET type == CASE IsPrimitive(a) -> sexp_type(a)
                [] IsFactor(a) -> "INTSXP"
                [] OTHER -> "STRSXP"
      copy == AllocFilled(FreshAddress(a), type, Length(a).value, <<>>,
                          IF IsString(a) THEN R_BlankString ELSE uninit)
  IN  [alt |-> SetRepresentation(a, copy), copy |-> copy]

\* Rf_allocVector in Materialize
Materialize_Alloc(a, uninit) ==
  LET type == CASE IsPrimitive(a) -> sexp_type(a)
                [] IsFactor(a) -> "INTSXP"
                [] OTHER -> "STRSXP"
      copy == AllocFilled(FreshAddress(a), type, Length(a).value, <<>>,
                          IF IsString(a) THEN R_BlankString ELSE uninit)
  IN  [alt |-> a, copy |-> copy]

\* the next statement that fills copy, n elements being written: the call
\* Get_region(alt, 0, size, DATAPTR(copy)), or SET_STRING_ELT(data2, n,
\* Convert(j))
Materialize_Fill(a, copy, n, strip) ==
  IF IsString(a)
    THEN LET resolve == ArrayResolve(GetChunkedArray(a), n)
             s == Convert(resolve.array_, resolve.index_, strip)
         IN  [copy |-> IF s.error THEN copy ELSE [copy EXCEPT !.data[n + 1] = s.value],
              n |-> n + 1, error |-> s.error, stripped |-> s.stripped]
    ELSE LET size == Length(a).value
             region == Impl_Get_region(a, 0, size, copy.data[1]).value
         IN  [copy |-> [copy EXCEPT !.data =
                          [k \in 1..size |->
                             IF k <= region.ncopy THEN region.buf[k] ELSE copy.data[k]]],
              n |-> size, error |-> FALSE, stripped |-> FALSE]

\* SetRepresentation(alt, copy) and the return of Materialize
Materialize_Store(a, copy, warnings) ==
  [Ret(SetRepresentation(a, copy), 1, copy) EXCEPT !.warnings = warnings]

\* Rf_duplicate(x): a copy of x at the fresh address id
Rf_duplicate(x, id) == [x EXCEPT !.id = id]

\* Rf_lazy_duplicate(x): x is marked as shared and handed back, nothing is copied
Rf_lazy_duplicate(x) == x

\* one element of Rf_coerceVector between INTSXP and REALSXP
CoerceElt(from, to, v) ==
  CASE from = "INTSXP" /\ to = "REALSXP" ->
         IF v = NA_INTEGER THEN NA_REAL ELSE Double(Wide(v))
    [] from = "REALSXP" /\ to = "INTSXP" ->
         IF v.k # "num" \/ WideLe(v.m, Wide(INT32_MIN)) \/ WideLt(Wide(INT32_MAX), v.m)
           THEN NA_INTEGER ELSE WideToInt(v.m)
    [] OTHER -> v

\* Rf_coerceVector(x, type): x itself when it has the type already
Rf_coerceVector(x, type, id) ==
  IF x.type = type THEN x
  ELSE [id |-> id, type |-> type,
        data |-> [k \in 1..Len(x.data) |-> CoerceElt(x.type, type, x.data[k])],
        attrib |-> NoAttrib]

Base_Duplicate(a, uninit, strip) ==
  LET m == Impl_Materialize(a, uninit, strip)
  IN  IF m.error THEN m
      ELSE Ret(m.alt, m.allocs + 1, Rf_duplicate(m.value, FreshAddress(m.alt)))

\* SET_ATTRIB(dup, atts) acts on the object dup names: the representation
Factor_Duplicate(a, uninit) ==
  LET m == Factor_Materialize(a, uninit)
      dup == Rf_lazy_duplicate(m.value)
      atts == a.attrib
      a2 == [m.alt EXCEPT !.data2.car.attrib = atts]
  IN  Ret(a2, m.allocs, [dup EXCEPT !.attrib = atts])

Duplicate(a, uninit, strip) ==
  IF IsFactor(a) THEN Factor_Duplicate(a, uninit) ELSE Base_Duplicate(a, uninit, strip)

Coerce(a, type, uninit, strip) ==
  LET m == Impl_Materialize(a, uninit, strip)
      r == Rf_coerceVector(m.value, type, FreshAddress(m.alt))
  IN  IF m.error THEN m
      ELSE Ret(m.alt, IF r.id = m.value.id THEN m.allocs ELSE m.allocs + 1, r)

\* Serialized_state handing out a copy of the representation
Serialized_state_Copy(a, uninit, strip) ==
  LET m == Impl_Materialize(a, uninit, strip)
  IN  IF m.error THEN m
      ELSE Ret(m.alt, m.allocs + 1, Rf_duplicate(m.value, FreshAddress(m.alt)))

Serialized_state(a, uninit, strip) == Impl_Materialize(a, uninit, strip)

Unserialize(class_, state) == state

\* Inspect materializing the vector to print it
Inspect_Materialized(a) ==
  LET m == Impl_Materialize(a, na(a), FALSE)
      chunked_array == GetChunkedArray(a)
  IN  Ret(m.alt, m.allocs, <<chunked_array.type, num_chunks(chunked_array),
                             null_count(chunked_array), length(chunked_array)>>)

\* what Inspect prints: chunks, nulls, length
Inspect(a) ==
  LET chunked_array == GetChunkedArray(a)
  IN  Ret(a, 0, <<chunked_array.type, num_chunks(chunked_array),
                  null_count(chunked_array), length(chunked_array)>>)

\* AltrepVectorBase::Make
Base_Make(class_t, chunked_array) ==
  [class |-> class_t, data1 |-> chunked_array, data2 |-> R_NilValue, attrib |-> NoAttrib]

\* MakeAltrepVector without the test of arrow.use_altrep
MakeAltrepVector_Always(use_altrep, chunked_array) ==
  IF length(chunked_array) > 0
    THEN CASE chunked_array.type = "double" ->
                [made |-> TRUE, alt |-> Base_Make("array_dbl_vector", chunked_array)]
           [] chunked_array.type = "int32" ->
                [made |-> TRUE, alt |-> Base_Make("array_int_vector", chunked_array)]
           [] chunked_array.type = "string" ->
                [made |-> TRUE, alt |-> Base_Make("array_string_vector", chunked_array)]
           [] chunked_array.type = "large_string" ->
                [made |-> TRUE, alt |-> Base_Make("array_large_string_vector", chunked_array)]
           [] chunked_array.type = "dictionary" -> Factor_Make(chunked_array)
           [] OTHER -> [made |-> FALSE, alt |-> Base_Make("", chunked_array)]
    ELSE [made |-> FALSE, alt |-> Base_Make("", chunked_array)]

\* MakeAltrepVector; made is FALSE where it returns R_NilValue
MakeAltrepVector(use_altrep, chunked_array) ==
  IF use_altrep /\ length(chunked_array) > 0
    THEN CASE chunked_array.type = "double" ->
                [made |-> TRUE, alt |-> Base_Make("array_dbl_vector", chunked_array)]
           [] chunked_array.type = "int32" ->
                [made |-> TRUE, alt |-> Base_Make("array_int_vector", chunked_array)]
           [] chunked_array.type = "string" ->
                [made |-> TRUE, alt |-> Base_Make("array_string_vector", chunked_array)]
           [] chunked_array.type = "large_string" ->
                [made |-> TRUE, alt |-> Base_Make("array_large_string_vector", chunked_array)]
           [] chunked_array.type = "dictionary" -> Factor_Make(chunked_array)
           [] OTHER -> [made |-> FALSE, alt |-> Base_Make("", chunked_array)]
    ELSE [made |-> FALSE, alt |-> Base_Make("", chunked_array)]

(***************************************************************************)
(* The chunked arrays handed to MakeAltrepVector.                          *)
(***************************************************************************)
\* the chunk lengths: at most MaxChunks chunks, between 1 and MaxLen elements
Layouts ==
  {l \in UNION {[1..k -> 0..MaxLen] : k \in 1..MaxChunks} : SumOver(l, Len(l)) \in 1..MaxLen}

ArrowTypes == {"double", "int32", "string", "large_string", "dictionary"}

\* the non-null values of one element
ValuesOf(type) ==
  CASE type = "double" -> {Double(Wide(1)), Double(Wide(3))}
    [] type = "int32" -> {1, 3}
    [] type \in {"string", "large_string"} -> {<<1>>, <<1, 0, 2>>}
    [] OTHER -> {0, 1}

\* int32 values at the ends of the range
Int32Extremes == {1, -1, INT32_MAX, -INT32_MAX}

\* what the value buffer holds under a null
UnderNull(type) ==
  CASE type = "double" -> Double(Wide(0))
    [] type \in {"string", "large_string"} -> <<>>
    [] OTHER -> 0

\* one element: its validity bit and the content of the value buffer
Elements(type, values) ==
  [valid : {TRUE}, value : values] \cup [valid : {FALSE}, value : {UnderNull(type)}]

\* the chunks of layout l holding the elements e, in order
ChunksOf(l, e) ==
  [c \in 1..Len(l) |->
     [values |-> [j \in 1..l[c] |-> e[SumOver(l, c - 1) + j].value],
      valid |-> [j \in 1..l[c] |-> e[SumOver(l, c - 1) + j].valid]]]

Dictionaries == {<<"a", "b">>, <<"b", "a">>}

\* the values an element never written by Get_region may read as
Uninitialised(a) == IF IsReal(a) THEN {Double(Wide(0)), NA_REAL} ELSE {0, NA_INTEGER}

PlainArray(type, l, e) == [type |-> type, chunks |-> ChunksOf(l, e)]

DictionaryArray(l, e, d, index_type, ordered) ==
  [type |-> "dictionary", value_type |-> "STRING", index_type |-> index_type,
   ordered |-> ordered,
   chunks |-> [c \in 1..Len(l) |->
                 [values |-> ChunksOf(l, e)[c].values, valid |-> ChunksOf(l, e)[c].valid,
                  dictionary |-> d[c]]]]

\* no element was read by the call before this one
NoElt == [seen |-> FALSE, i |-> 0, value |-> R_NilValue]

NoCall ==
  [op |-> "Make", i |-> 0, n |-> 0, flag |-> FALSE, pre |-> FALSE, allocs |-> 0,
   value |-> R_NilValue, error |-> FALSE, warnings |-> 0, before |-> NoElt,
   retry |-> FALSE]

Started(chunked_array) ==
  /\ MakeAltrepVector(TRUE, chunked_array).made
  /\ alt = MakeAltrepVector(TRUE, chunked_array).alt
  /\ skip_nul = FALSE
  /\ last = NoCall

InitPlain(type, values) ==
  \E l \in Layouts :
    \E e \in [1..SumOver(l, Len(l)) -> Elements(type, values)] :
      Started(PlainArray(type, l, e))

InitFactor ==
  \E l \in Layouts, t \in {<<"INT8", FALSE>>, <<"UINT32", TRUE>>} :
    \E e \in [1..SumOver(l, Len(l)) -> Elements("dictionary", ValuesOf("dictionary"))],
       d \in [1..Len(l) -> Dictionaries] :
      Started(DictionaryArray(l, e, d, t[1], t[2]))

InitPrimitive == \E type \in {"double", "int32"} : InitPlain(type, ValuesOf(type))

InitString == \E type \in {"string", "large_string"} : InitPlain(type, ValuesOf(type))

InitInt32 == InitPlain("int32", Int32Extremes)

Init == InitPrimitive \/ InitString \/ InitFactor

(***************************************************************************)
(* The calls of the host.  Each records in last what was asked and what    *)
(* came back; pre is IsMaterialized before the call.  The call that        *)
(* materializes the vector also keeps, in before, what the call just       *)
(* before it read if that was an Elt; retry is set on a Materialize that   *)
(* follows a Materialize that raised.                                      *)
(***************************************************************************)
Call(op, i, n, flag, r) ==
  /\ alt' = r.alt
  /\ last' = [op |-> op, i |-> i, n |-> n, flag |-> flag, pre |-> IsMaterialized(alt),
              allocs |-> r.allocs, value |-> r.value, error |-> r.error,
              warnings |-> r.warnings,
              before |-> IF ~IsMaterialized(alt) /\ IsMaterialized(r.alt)
                              /\ last.op = "Elt" /\ ~last.error
                           THEN [seen |-> TRUE, i |-> last.i, value |-> last.value]
                           ELSE NoElt,
              retry |-> op = "Materialize" /\ last.op = "Materialize" /\ last.error]
  /\ UNCHANGED skip_nul

\* what a vector fresh from Rf_allocVector may hold
Fresh(a) == IF IsMaterialized(a) THEN {0} ELSE Uninitialised(a)

LengthOp == Call("Length", 0, 0, FALSE, Length(alt))

No_NAOp == Call("No_NA", 0, 0, FALSE, No_NA(alt))

InspectOp == Call("Inspect", 0, 0, FALSE, Inspect(alt))

MaterializeOp ==
  \E uninit \in Fresh(alt) :
    Call("Materialize", 0, 0, FALSE, Impl_Materialize(alt, uninit, skip_nul))

EltOp ==
  \E i \in 0..(XLength(alt) - 1) : Call("Elt", i, 0, FALSE, Impl_Elt(alt, i, skip_nul))

\* the buffer of the caller holds zeros before the call
Get_regionOp ==
  /\ ~IsString(alt)
  /\ \E i \in 0..XLength(alt), n \in 0..(MaxLen + 1) :
       Call("Get_region", i, n, FALSE, Impl_Get_region(alt, i, n, 0))

Dataptr_or_nullOp ==
  Call("Dataptr_or_null", 0, 0, FALSE, Impl_Dataptr_or_null(alt))

DataptrOp ==
  \E writeable \in BOOLEAN, uninit \in Fresh(alt) :
    Call("Dataptr", 0, 0, writeable, Impl_Dataptr(alt, writeable, uninit, skip_nul))

SumOp ==
  /\ ~IsString(alt)
  /\ \E narm \in BOOLEAN : Call("Sum", 0, 0, narm, Impl_Sum(alt, narm))

MinOp ==
  /\ ~IsString(alt)
  /\ \E narm \in BOOLEAN : Call("Min", 0, 0, narm, Impl_Min(alt, narm))

MaxOp ==
  /\ ~IsString(alt)
  /\ \E narm \in BOOLEAN : Call("Max", 0, 0, narm, Impl_Max(alt, narm))

DuplicateOp ==
  \E uninit \in Fresh(alt) :
    Call("Duplicate", 0, 0, FALSE, Duplicate(alt, uninit, skip_nul))

CoerceOp ==
  \E type \in (IF IsString(alt) THEN {"STRSXP"} ELSE {"INTSXP", "REALSXP"}),
     uninit \in Fresh(alt) :
    Call("Coerce", 0, 0, type = "REALSXP", Coerce(alt, type, uninit, skip_nul))

Serialized_stateOp ==
  \E uninit \in Fresh(alt) :
    Call("Serialized_state", 0, 0, FALSE, Serialized_state(alt, uninit, skip_nul))

Set_eltOp ==
  /\ IsString(alt)
  /\ \E i \in 0..(XLength(alt) - 1), v \in {NA_STRING, Rf_mkCharLenCE(<<2>>, 1)} :
       Call("Set_elt", i, 0, v.is_na, String_Set_elt(alt, i, v))

\* R hands the state Serialized_state returned to Unserialize
UnserializeOp ==
  /\ last.op = "Serialized_state" /\ ~last.error
  /\ Call("Unserialize", 0, 0, FALSE, Ret(alt, 0, Unserialize(alt.class, last.value)))

\* a Materialize is running: last holds the vector it is filling, n the
\* number of elements written, warnings whether a nul was stripped
Running == last.op \in {"Materialize:alloc", "Materialize:fill"}

MaterializeBegin ==
  /\ ~Running
  /\ IF IsMaterialized(alt)
       THEN Call("Materialize", 0, 0, FALSE, Ret(alt, 0, Representation(alt)))
       ELSE \E uninit \in Fresh(alt) :
              LET r == Materialize_Alloc(alt, uninit)
              IN  /\ alt' = r.alt
                  /\ last' = [NoCall EXCEPT !.op = "Materialize:alloc", !.value = r.copy]
                  /\ UNCHANGED skip_nul

MaterializeFill ==
  /\ Running /\ last.n < XLength(alt)
  /\ LET r == Materialize_Fill(alt, last.value, last.n, skip_nul)
     IN  IF r.error
           THEN Call("Materialize", 0, 0, FALSE, Raise(alt, 1))
           ELSE /\ last' = [last EXCEPT !.op = "Materialize:fill", !.value = r.copy,
                                        !.n = r.n,
                                        !.warnings = IF r.stripped THEN 1 ELSE @]
                /\ UNCHANGED <<alt, skip_nul>>

MaterializeStore ==
  /\ Running /\ last.n = XLength(alt)
  /\ Call("Materialize", 0, 0, FALSE, Materialize_Store(alt, last.value, last.warnings))

\* options(arrow.skip_nul = ...) is set between two calls
SetOption ==
  /\ IsString(alt)
  /\ skip_nul' = ~skip_nul
  /\ UNCHANGED <<alt, last>>

Next ==
  \/ LengthOp \/ No_NAOp \/ InspectOp \/ MaterializeOp \/ EltOp \/ Get_regionOp
  \/ Dataptr_or_nullOp \/ DataptrOp \/ SumOp \/ MinOp \/ MaxOp \/ DuplicateOp
  \/ CoerceOp \/ Serialized_stateOp \/ Set_eltOp \/ SetOption

Spec == Init /\ [][Next]_vars

\* the methods AltrepVectorPrimitive defines, on the numeric vectors
NextPrimitive ==
  \/ MaterializeOp \/ EltOp \/ Get_regionOp \/ Dataptr_or_nullOp \/ DataptrOp
  \/ SumOp \/ MinOp \/ MaxOp

SpecPrimitive == InitPrimitive /\ [][NextPrimitive]_vars

\* the aggregates on int32 vectors whose sums leave the int range
NextAggregate == MaterializeOp \/ SumOp \/ MinOp \/ MaxOp

SpecInt32 == InitInt32 /\ [][NextAggregate]_vars

\* the chunked arrays the conversion to R may meet: the types with an ALTREP
\* class and others, dictionaries of strings and of other values, and arrays
\* without an element
OtherTypes == {"int64", "bool"}

DictionaryValueTypes == {"STRING", "LARGE_STRING", "INT32"}

EmptyLayouts == {<<>>, <<0>>}

InitDispatch ==
  /\ \E l \in Layouts \cup EmptyLayouts, type \in ArrowTypes \cup OtherTypes :
       \E e \in [1..SumOver(l, Len(l)) -> Elements(type, ValuesOf(type))] :
         IF type = "dictionary"
           THEN \E d \in [1..Len(l) -> Dictionaries], vt \in DictionaryValueTypes :
                  alt = Base_Make("", [DictionaryArray(l, e, d, "INT8", FALSE)
                                         EXCEPT !.value_type = vt])
           ELSE alt = Base_Make("", PlainArray(type, l, e))
  /\ skip_nul = FALSE
  /\ last = NoCall

\* the conversion to R asks for an ALTREP vector; the object of class "" is
\* the chunked array without a wrapper
MakeAltrepVectorOp ==
  /\ alt.class = "" /\ last.op = "Make"
  /\ \E use_altrep \in BOOLEAN :
       LET r == MakeAltrepVector(use_altrep, GetChunkedArray(alt))
       IN  /\ alt' = IF r.made THEN r.alt ELSE alt
           /\ last' = [NoCall EXCEPT !.op = "MakeAltrepVector", !.flag = use_altrep,
                                     !.value = IF r.made THEN r.alt ELSE R_NilValue]
  /\ UNCHANGED skip_nul

NextDispatch == MakeAltrepVectorOp

SpecDispatch == InitDispatch /\ [][NextDispatch]_vars

\* Materialize statement by statement; no other call runs inside it
SetOptionBetween == ~Running /\ SetOption

NextMaterialize ==
  MaterializeBegin \/ MaterializeFill \/ MaterializeStore \/ SetOptionBetween

SpecMaterialize == Init /\ [][NextMaterialize]_vars

\* two invocations of Materialize on one object, each between two of its
\* statements: the test of IsMaterialized with the allocation, the statements
\* that fill the vector, SetRepresentation with the return.  last.value holds
\* the two invocations, last.n the number of calls of SetRepresentation.
Idle ==
  [pc |-> "idle", copy |-> R_NilValue, n |-> 0, strip |-> FALSE, ret |-> R_NilValue,
   error |-> FALSE]

Invocation(p) == IF last.op = "Make" THEN Idle ELSE last.value[p]

\* Rf_allocVector hands out an address no live vector has
UnusedAddress(p) ==
  CHOOSE id \in 1..4 :
    /\ id \notin {Representation(alt).id, Invocation(3 - p).copy.id, Invocation(3 - p).ret.id}
    /\ \A k \in 1..(id - 1) :
         k \in {Representation(alt).id, Invocation(3 - p).copy.id, Invocation(3 - p).ret.id}

\* invocation p moves to inv, writes more calls of SetRepresentation are made
Proceed(p, inv, writes) ==
  last' = [NoCall EXCEPT !.op = "Materialize:two",
                         !.n = (IF last.op = "Make" THEN 0 ELSE last.n) + writes,
                         !.value = [q \in 1..2 |-> IF q = p THEN inv ELSE Invocation(q)]]

\* if (!IsMaterialized(alt)) { copy = Rf_allocVector(...)  or  return Representation(alt)
MaterializeTest ==
  \E p \in 1..2 :
    /\ Invocation(p).pc = "idle"
    /\ IF IsMaterialized(alt)
         THEN Proceed(p, [Idle EXCEPT !.pc = "done", !.ret = Representation(alt)], 0)
         ELSE \E uninit \in Fresh(alt) :
                Proceed(p, [Idle EXCEPT !.pc = "fill", !.strip = skip_nul,
                              !.copy = [Materialize_Alloc(alt, uninit).copy
                                          EXCEPT !.id = UnusedAddress(p)]], 0)
    /\ UNCHANGED <<alt, skip_nul>>

\* the statements that fill copy; a conversion that raises ends the invocation
MaterializeBuild ==
  \E p \in 1..2 :
    LET inv == Invocation(p)
        r == Materialize_Fill(alt, inv.copy, inv.n, inv.strip)
    IN  /\ inv.pc = "fill"
        /\ Proceed(p, IF r.error
                        THEN [inv EXCEPT !.pc = "done", !.error = TRUE]
                        ELSE [inv EXCEPT !.copy = r.copy, !.n = r.n,
                                         !.pc = IF r.n = XLength(alt) THEN "publish" ELSE "fill"],
                   0)
        /\ UNCHANGED <<alt, skip_nul>>

\* SetRepresentation(alt, copy); return
MaterializePublish ==
  \E p \in 1..2 :
    LET inv == Invocation(p)
        r == Materialize_Store(alt, inv.copy, 0)
    IN  /\ inv.pc = "publish"
        /\ alt' = r.alt
        /\ Proceed(p, [inv EXCEPT !.pc = "done", !.ret = r.value], 1)
        /\ UNCHANGED skip_nul

NextInterleaved == MaterializeTest \/ MaterializeBuild \/ MaterializePublish \/ SetOption

SpecInterleaved == Init /\ [][NextInterleaved]_vars

\* Elt on vectors of every class that are not materialized: each call
\* resolves its index
NextResolve == EltOp \/ SetOption

SpecResolve == Init /\ [][NextResolve]_vars

\* the pointers R asks of the factors and the string vectors
InitPointers == InitString \/ InitFactor

NextPointers == MaterializeOp \/ Dataptr_or_nullOp \/ DataptrOp \/ SetOption

SpecPointers == InitPointers /\ [][NextPointers]_vars

\* the methods that describe the vector, and Materialize
NextDescribe == LengthOp \/ No_NAOp \/ InspectOp \/ MaterializeOp \/ SetOption

SpecDescribe == Init /\ [][NextDescribe]_vars

\* a vector is saved and read back
NextSerialize == MaterializeOp \/ Serialized_stateOp \/ UnserializeOp \/ SetOption

SpecSerialize == Init /\ [][NextSerialize]_vars

\* the methods AltrepVectorString defines, and the option they read
NextString == MaterializeOp \/ EltOp \/ Set_eltOp \/ SetOption

SpecString == InitString /\ [][NextString]_vars

\* dictionaries that differ in order and in labels
WideDictionaries == {<<"a", "b">>, <<"b", "a">>, <<"b", "c">>}

InitUnified ==
  \E l \in Layouts :
    \E e \in [1..SumOver(l, Len(l)) -> Elements("dictionary", ValuesOf("dictionary"))],
       d \in [1..Len(l) -> WideDictionaries] :
      Started(DictionaryArray(l, e, d, "INT8", FALSE))

\* reading the elements of a factor, before and after Materialize
NextFactor == MaterializeOp \/ EltOp

SpecFactor == InitUnified /\ [][NextFactor]_vars

\* the aggregates on factors
SpecFactorAggregate == InitFactor /\ [][NextAggregate]_vars

\* factors of one index type whose chunks agree on the dictionary or not
InitRegion ==
  \E l \in Layouts :
    \E e \in [1..SumOver(l, Len(l)) -> Elements("dictionary", ValuesOf("dictionary"))],
       d \in [1..Len(l) -> Dictionaries] :
      Started(DictionaryArray(l, e, d, "INT8", FALSE))

\* factors of every integer type of index
InitIndexTypes ==
  \E l \in Layouts, index_type \in IntegerTypes :
    \E e \in [1..SumOver(l, Len(l)) -> Elements("dictionary", ValuesOf("dictionary"))],
       d \in [1..Len(l) -> Dictionaries] :
      Started(DictionaryArray(l, e, d, index_type, FALSE))

SpecFactorElt == InitIndexTypes /\ [][NextFactor]_vars

\* reading a factor region by region, before and after Materialize
NextFactorRegion == MaterializeOp \/ Get_regionOp

SpecFactorRegion == InitRegion /\ [][NextFactorRegion]_vars

(***************************************************************************)
(* The claims.                                                             *)
(***************************************************************************)
Source == GetChunkedArray(alt)

\* the places <<chunk, index>> of the non-null elements of the source
NonNull ==
  {p \in (1..num_chunks(Source)) \X (1..MaxLen) :
     p[2] <= ArrayLength(Source.chunks[p[1]]) /\ Source.chunks[p[1]].valid[p[2]]}

At(p) == Source.chunks[p[1]].values[p[2]]

C2_MaterializeIdempotent ==
  [][(last'.op = "Materialize" /\ skip_nul' = skip_nul /\ IsMaterialized(alt)) =>
       /\ ~last'.error
       /\ last'.value = Representation(alt)
       /\ last'.allocs = 0
       /\ alt' = alt]_vars

\* a second Materialize on a factor of two chunks
C2_Witness ==
  /\ IsFactor(alt) /\ num_chunks(Source) = 2
  /\ last.op = "Materialize" /\ last.pre /\ last.value = Representation(alt)

\* C3: what Elt returned for index i before the vector was materialized is
\* element i of the vector Materialize caches and returns.
C3_EltBeforeIsElementAfter ==
  last.before.seen =>
    /\ IsMaterialized(alt)
    /\ Len(Representation(alt).data) = length(Source)
    /\ Representation(alt).data[last.before.i + 1] = last.before.value
    /\ last.op = "Materialize" => last.value.data[last.before.i + 1] = last.before.value

\* Elt read the null element behind a zero-length chunk, then Materialize ran
C3_Witness ==
  /\ last.before.seen /\ last.op = "Materialize"
  /\ num_chunks(Source) = 2 /\ ArrayLength(Source.chunks[1]) = 0
  /\ last.before.i = 1 /\ ~Source.chunks[2].valid[2]

\* C4: on a numeric vector Get_region(start, n) returns min(n, length - start),
\* writes that many elements, and element k is Elt(start + k): the sentinel at
\* a null.
C4_RegionIsElts ==
  (IsPrimitive(alt) /\ last.op = "Get_region") =>
    LET count == Min2(last.n, length(Source) - last.i)
    IN  /\ last.value.ncopy = count
        /\ Len(last.value.buf) = count
        /\ \A k \in 0..(count - 1) :
             /\ last.value.buf[k + 1] = Primitive_Elt(alt, last.i + k).value
             /\ LET r == ArrayResolve(Source, last.i + k)
                IN  last.value.buf[k + 1] =
                      IF r.array_.valid[r.index_ + 1] THEN r.array_.values[r.index_ + 1]
                      ELSE na(alt)

\* an unmaterialized vector of chunks of 2 and 1 elements with a null: the
\* window starts at 1, crosses into the second chunk and is clipped
C4_Witness ==
  /\ IsPrimitive(alt) /\ last.op = "Get_region" /\ ~last.pre
  /\ num_chunks(Source) = 2 /\ ArrayLength(Source.chunks[1]) = 2
  /\ ArrayLength(Source.chunks[2]) = 1 /\ ~Source.chunks[1].valid[2]
  /\ last.i = 1 /\ last.n = 3 /\ last.value.ncopy = 2

\* the pointer path without a copy is open to a call
ZeroCopy == ~last.pre /\ num_chunks(Source) = 1 /\ null_count(Source) = 0

\* C5: on a numeric vector Dataptr_or_null and Dataptr return the address of
\* the chunk's buffer, and do not materialize, exactly when the vector is not
\* materialized and has one chunk and no nulls; otherwise Dataptr materializes
\* and returns the address of the cache, and Dataptr_or_null returns the
\* address of the cache if there is one and nullptr if not, changing nothing.
C5_ZeroCopyIff ==
  (IsPrimitive(alt) /\ last.op \in {"Dataptr_or_null", "Dataptr"}) =>
    /\ last.value.base = "chunk" <=> ZeroCopy
    /\ ZeroCopy => ~IsMaterialized(alt) /\ last.allocs = 0
    /\ (~ZeroCopy /\ last.op = "Dataptr") =>
         IsMaterialized(alt) /\ last.value = DATAPTR(Representation(alt))
    /\ (~ZeroCopy /\ last.op = "Dataptr_or_null") =>
         /\ IsMaterialized(alt) = last.pre
         /\ last.allocs = 0
         /\ last.value = IF last.pre THEN DATAPTR(Representation(alt)) ELSE nullptr

\* Dataptr_or_null gave up on an unmaterialized vector of one chunk with a null
C5_Witness ==
  /\ IsPrimitive(alt) /\ last.op = "Dataptr_or_null" /\ ~last.pre
  /\ num_chunks(Source) = 1 /\ null_count(Source) > 0 /\ last.value = nullptr

\* C6: on a numeric vector Dataptr(writeable = TRUE) leaves the vector
\* materialized and returns the address of the cache, never the address of
\* the chunk's buffer.
C6_WriteableMaterializes ==
  (IsPrimitive(alt) /\ last.op = "Dataptr" /\ last.flag) =>
    /\ IsMaterialized(alt)
    /\ last.value = DATAPTR(Representation(alt))
    /\ last.value.base # "chunk"

\* C7: a call of Sum, Min or Max on a numeric vector leaves IsMaterialized and
\* the cache slot as they were and allocates no R vector, whatever narm is and
\* whatever it returns.
C7_AggregatesDoNotMaterialize ==
  [][(IsPrimitive(alt) /\ last'.op \in {"Sum", "Min", "Max"}) =>
       /\ IsMaterialized(alt') = IsMaterialized(alt)
       /\ Representation(alt') = Representation(alt)
       /\ alt' = alt
       /\ last'.pre = IsMaterialized(alt')]_vars

\* Min answered with the infinity of the empty reduction, not materialized
C7_Witness ==
  /\ IsPrimitive(alt) /\ last.op = "Min" /\ last.flag
  /\ ~last.pre /\ ~IsMaterialized(alt)
  /\ last.value = Rf_ScalarReal(R_PosInf)

\* a null is in the source and the call does not skip nulls
Unskipped == ~last.flag /\ null_count(Source) > 0

\* the exact sum of the non-null elements, the two limbs added apart
RECURSIVE LimbSums(_)
LimbSums(S) ==
  IF S = {} THEN <<0, 0>>
  ELSE LET p == CHOOSE q \in S : TRUE
           w == Widen(Source, At(p))
           r == LimbSums(S \ {p})
       IN  <<r[1] + w.hi, r[2] + w.lo>>

ExactSum ==
  LET s == LimbSums(NonNull)
  IN  [hi |-> s[1] + (s[2] \div Limb), lo |-> s[2] % Limb]

\* the exact value of a scalar that is a number
Exact(x) == IF x.type = "INTSXP" THEN Wide(x.ival) ELSE x.rval.m

IsNumber(x) == x.type = "INTSXP" \/ x.rval.k = "num"

Smallest == At(CHOOSE p \in NonNull : \A q \in NonNull : ~CellLt(Source, At(q), At(p)))

Largest == At(CHOOSE p \in NonNull : \A q \in NonNull : ~CellLt(Source, At(p), At(q)))

\* C8: on a numeric vector, when narm is false and the source has a null, Sum,
\* Min and Max return the NA of the element type; otherwise Sum is the sum and
\* Min and Max the least and the greatest of the non-null elements.
C8_SentinelOrAggregate ==
  (IsPrimitive(alt) /\ last.op \in {"Sum", "Min", "Max"}) =>
    IF Unskipped
      THEN last.value = as_sexp(alt, na(alt))
      ELSE /\ last.op = "Sum" =>
                /\ last.value.type = sexp_type(alt)
                /\ IsNumber(last.value)
                /\ Exact(last.value) = ExactSum
           /\ (last.op = "Min" /\ NonNull # {}) => last.value = as_sexp(alt, Smallest)
           /\ (last.op = "Max" /\ NonNull # {}) => last.value = as_sexp(alt, Largest)

\* Sum of [1, null, 3] in one chunk, nulls skipped, is 4
C8_Witness ==
  /\ IsPrimitive(alt) /\ ~IsReal(alt) /\ last.op = "Sum" /\ last.flag
  /\ num_chunks(Source) = 1 /\ Source.chunks[1].valid = <<TRUE, FALSE, TRUE>>
  /\ Source.chunks[1].values[1] = 1 /\ Source.chunks[1].values[3] = 3
  /\ last.value = Rf_ScalarInteger(4)

EmptySources(type) ==
  {[type |-> type, chunks |-> <<>>], [type |-> type, chunks |-> <<NoArray>>]}

\* C9: on a numeric vector whose elements are all null, with narm true, Min is
\* +Inf, Max is -Inf and Sum is 0; so they are on an empty source, whatever
\* narm is.
C9_EmptyReduction ==
  /\ (IsPrimitive(alt) /\ last.flag /\ NonNull = {}) =>
       /\ last.op = "Min" => last.value = Rf_ScalarReal(R_PosInf)
       /\ last.op = "Max" => last.value = Rf_ScalarReal(R_NegInf)
       /\ last.op = "Sum" => last.value = as_sexp(alt, IF IsReal(alt) THEN Double(Wide(0)) ELSE 0)
  /\ \A narm \in BOOLEAN :
       /\ \A ca \in EmptySources("int32") :
            LET a == Base_Make("array_int_vector", ca)
            IN  /\ Primitive_Min(a, narm).value = Rf_ScalarReal(R_PosInf)
                /\ Primitive_Max(a, narm).value = Rf_ScalarReal(R_NegInf)
                /\ Primitive_Sum(a, narm).value = Rf_ScalarInteger(0)
       /\ \A ca \in EmptySources("double") :
            LET a == Base_Make("array_dbl_vector", ca)
            IN  /\ Primitive_Min(a, narm).value = Rf_ScalarReal(R_PosInf)
                /\ Primitive_Max(a, narm).value = Rf_ScalarReal(R_NegInf)
                /\ Primitive_Sum(a, narm).value = Rf_ScalarReal(Double(Wide(0)))

\* Max of two chunks of nulls, nulls skipped
C9_Witness ==
  /\ IsPrimitive(alt) /\ last.op = "Max" /\ last.flag
  /\ num_chunks(Source) = 2 /\ length(Source) = 2 /\ null_count(Source) = 2
  /\ last.value = Rf_ScalarReal(R_NegInf)

\* C10: Sum of an int32 vector, when it does not return NA: if the exact sum
\* of the non-null elements is outside [INT32_MIN, INT32_MAX] the result is
\* the double of that value, and a result that is an integer is the exact sum.
C10_SumPromotes ==
  (IsPrimitive(alt) /\ ~IsReal(alt) /\ last.op = "Sum" /\ ~Unskipped) =>
    /\ (WideLt(ExactSum, Wide(INT32_MIN)) \/ WideLt(Wide(INT32_MAX), ExactSum)) =>
         last.value = Rf_ScalarReal(Double(ExactSum))
    /\ last.value.type = "INTSXP" => Wide(last.value.ival) = ExactSum
    /\ last.value.type = "REALSXP" => last.value.rval = Double(ExactSum)

\* the sum of INT32_MAX and 1 came back as the double 2147483648
C10_Witness ==
  /\ IsPrimitive(alt) /\ ~IsReal(alt) /\ last.op = "Sum"
  /\ ExactSum = WideAdd(Wide(INT32_MAX), Wide(1))
  /\ last.value = Rf_ScalarReal(Double(ExactSum))

\* the label element i of the source carries, read through its own chunk's
\* dictionary
LabelAt(i) ==
  LET r == ArrayResolve(Source, i)
  IN  r.array_.dictionary[r.array_.values[r.index_ + 1] + 1]

ValidAt(i) ==
  LET r == ArrayResolve(Source, i)
  IN  r.array_.valid[r.index_ + 1]

\* C11: on a factor whose dictionaries were unified the levels are distinct
\* labels, and the code Elt returns for a non-null element is the place, from
\* 1, of the element's label in the levels; so two elements of the same label,
\* in one chunk or in two, get the same code.
C11_UnifiedCodes ==
  (IsFactor(alt) /\ WasUnified(alt)) =>
    LET levels == alt.attrib.levels
        valid == {i \in 0..(length(Source) - 1) : ValidAt(i)}
    IN  /\ \A p, q \in 1..Len(levels) : levels[p] = levels[q] => p = q
        /\ \A i \in valid :
             /\ Factor_Elt(alt, i).value \in 1..Len(levels)
             /\ levels[Factor_Elt(alt, i).value] = LabelAt(i)
        /\ \A i, j \in valid :
             LabelAt(i) = LabelAt(j) => Factor_Elt(alt, i).value = Factor_Elt(alt, j).value
        /\ (last.op = "Elt" /\ last.i \in valid) => levels[last.value] = LabelAt(last.i)

\* chunks with dictionaries {a, b} and {b, a}: Elt read b in the second chunk,
\* where its index is 0, and returned the code b has in the first chunk
C11_Witness ==
  /\ IsFactor(alt) /\ WasUnified(alt) /\ ~IsMaterialized(alt)
  /\ num_chunks(Source) = 2
  /\ Source.chunks[1].dictionary = <<"a", "b">>
  /\ Source.chunks[2].dictionary = <<"b", "a">>
  /\ ArrayLength(Source.chunks[1]) = 1 /\ ArrayLength(Source.chunks[2]) = 1
  /\ ValidAt(0) /\ ValidAt(1) /\ LabelAt(0) = "b" /\ LabelAt(1) = "b"
  /\ last.op = "Elt" /\ last.i = 1 /\ last.value = 2
  /\ Factor_Elt(alt, 0).value = 2

\* C12: a call of Sum, Min or Max on a factor returns nullptr, the answer of
\* a method that does not apply, whatever narm is and whether the factor is
\* materialized or not; it raises nothing, allocates nothing and leaves the
\* object as it was.
C12_FactorAggregatesDecline ==
  [][(IsFactor(alt) /\ last'.op \in {"Sum", "Min", "Max"}) =>
       /\ last'.value = nullptr
       /\ ~last'.error
       /\ last'.allocs = 0
       /\ alt' = alt
       /\ IsMaterialized(alt') = IsMaterialized(alt)]_vars

\* Max with narm on a materialized factor, and Sum without on one that is not
C12_Witness ==
  /\ IsFactor(alt) /\ last.op \in {"Sum", "Min", "Max"} /\ last.value = nullptr
  /\ \/ last.op = "Max" /\ last.flag /\ last.pre /\ IsMaterialized(alt)
     \/ last.op = "Sum" /\ ~last.flag /\ ~last.pre /\ ~IsMaterialized(alt)

\* the bytes of element i of a source of strings
BytesAt(i) ==
  LET r == ArrayResolve(Source, i)
  IN  r.array_.values[r.index_ + 1]

NotNul(b) == b # 0

\* the elements that hold a nul byte
WithNul ==
  {i \in 0..(length(Source) - 1) : ValidAt(i) /\ \E k \in 1..Len(BytesAt(i)) : BytesAt(i)[k] = 0}

\* the CHARSXP of element i when no conversion fails
Converted(i) ==
  IF ValidAt(i) THEN [is_na |-> FALSE, chars |-> SelectSeq(BytesAt(i), NotNul)]
  ELSE NA_STRING

\* C13: Materialize on an unmaterialized string vector, when an element holds
\* a nul byte and arrow.skip_nul is off, raises and leaves the object as it
\* was, the cache absent; in every other case, a call after one that raised
\* included, it returns and the cache holds all length elements, converted
\* from the first on.
C13_FailedMaterializeCachesNothing ==
  [][(IsString(alt) /\ last'.op = "Materialize" /\ skip_nul' = skip_nul
        /\ ~IsMaterialized(alt)) =>
       IF ~skip_nul /\ WithNul # {}
         THEN /\ last'.error
              /\ alt' = alt
              /\ ~IsMaterialized(alt')
         ELSE /\ ~last'.error
              /\ IsMaterialized(alt')
              /\ last'.value = Representation(alt')
              /\ Len(Representation(alt').data) = length(Source)
              /\ \A i \in 0..(length(Source) - 1) :
                   Representation(alt').data[i + 1] = Converted(i)]_vars

\* Materialize raised at the second element, arrow.skip_nul was set, and the
\* Materialize after it filled the cache
C13_Witness ==
  /\ IsString(alt) /\ last.op = "Materialize" /\ last.retry /\ ~last.error
  /\ ~last.pre /\ IsMaterialized(alt) /\ skip_nul
  /\ length(Source) = 2 /\ WithNul = {1}
  /\ Representation(alt).data = <<Converted(0), Converted(1)>>

\* C14: with arrow.skip_nul on, Materialize on an unmaterialized string
\* vector returns, the cached strings are the source's without their nul
\* bytes, and the call warns once if an element held a nul, however many
\* did, and not at all if none did.
C14_OneWarningPerPass ==
  [][(IsString(alt) /\ last'.op = "Materialize" /\ skip_nul' = skip_nul
        /\ ~IsMaterialized(alt) /\ skip_nul) =>
       /\ ~last'.error
       /\ IsMaterialized(alt')
       /\ \A i \in 0..(length(Source) - 1) :
            /\ Representation(alt').data[i + 1] = Converted(i)
            /\ \A k \in 1..Len(Representation(alt').data[i + 1].chars) :
                 Representation(alt').data[i + 1].chars[k] # 0
       /\ last'.warnings = IF WithNul # {} THEN 1 ELSE 0]_vars

\* two chunks, a nul in an element of each: one warning
C14_Witness ==
  /\ IsString(alt) /\ last.op = "Materialize" /\ ~last.pre /\ ~last.error
  /\ skip_nul /\ IsMaterialized(alt)
  /\ num_chunks(Source) = 2 /\ ArrayLength(Source.chunks[1]) = 1
  /\ Cardinality(WithNul) >= 2 /\ 0 \in WithNul
  /\ last.warnings = 1

\* C15: Set_elt on a string vector raises for every index and value, before
\* and after materialization, and leaves the object as it was: the source,
\* the cache slot, and what Elt returns for every index.
C15_SetEltRaises ==
  [][(last'.op = "Set_elt" /\ skip_nul' = skip_nul) =>
       /\ IsString(alt)
       /\ last'.error
       /\ alt' = alt
       /\ GetChunkedArray(alt') = GetChunkedArray(alt)
       /\ Representation(alt') = Representation(alt)
       /\ \A i \in 0..(XLength(alt) - 1), strip \in BOOLEAN :
            String_Elt(alt', i, strip) = String_Elt(alt, i, strip)]_vars

\* a write of a string at the last index of an unmaterialized vector of three
C15_Witness ==
  /\ IsString(alt) /\ last.op = "Set_elt" /\ last.error
  /\ ~last.pre /\ ~IsMaterialized(alt)
  /\ length(Source) = 3 /\ last.i = 2 /\ ~last.flag

\* C16: a Duplicate that returns leaves the vector materialized and returns
\* a vector with the elements of the cache (on a factor, with the levels and
\* class of the object) that is another object than the cached one.
C16_DuplicateIsDeepCopy ==
  (last.op = "Duplicate" /\ ~last.error) =>
    /\ IsMaterialized(alt)
    /\ last.value.type = Representation(alt).type
    /\ last.value.data = Representation(alt).data
    /\ IsFactor(alt) => last.value.attrib = alt.attrib
    /\ last.value.id # Representation(alt).id

\* a standard R vector: no ALTREP object, nothing lazy in it
IsStandardVector(x) ==
  /\ DOMAIN x = {"id", "type", "data", "attrib"}
  /\ x.type \in {"INTSXP", "REALSXP", "STRSXP"}

\* C17: a Serialized_state that returns leaves the vector materialized and
\* returns the cached vector itself, the one Materialize returns, whose
\* elements are what Elt returned before the call; Unserialize of that state
\* is the state, a standard vector of the length and the elements of the
\* vector that was serialized.
C17_SerializeRoundTrip ==
  [][/\ (last'.op = "Serialized_state" /\ ~last'.error) =>
          /\ IsMaterialized(alt')
          /\ last'.value = Representation(alt')
          /\ last'.value = Impl_Materialize(alt', 0, skip_nul).value
          /\ IsMaterialized(alt) => alt' = alt
          /\ Len(last'.value.data) = XLength(alt)
          /\ \A i \in 0..(XLength(alt) - 1) :
               ~Impl_Elt(alt, i, skip_nul).error =>
                 last'.value.data[i + 1] = Impl_Elt(alt, i, skip_nul).value
     /\ last'.op = "Unserialize" =>
          /\ IsStandardVector(last'.value)
          /\ last'.value = last.value
          /\ alt' = alt
          /\ Len(last'.value.data) = XLength(alt)
          /\ \A i \in 0..(XLength(alt) - 1) :
               last'.value.data[i + 1] = Impl_Elt(alt, i, skip_nul).value]_vars

\* Unserialize of the state of a factor of two chunks with a null that
\* Serialized_state had to materialize
C17_Witness ==
  /\ last.op = "Unserialize" /\ IsFactor(alt) /\ IsMaterialized(alt)
  /\ num_chunks(Source) = 2 /\ null_count(Source) > 0
  /\ last.value = Representation(alt)

\* the places <<chunk, index>> of the elements of the source
Places ==
  {p \in (1..num_chunks(Source)) \X (1..MaxLen) : p[2] <= Len(Source.chunks[p[1]].values)}

\* C18: a call of Length, No_NA or Inspect leaves the object as it was, the
\* cache of an unmaterialized vector absent, for every variant; Length is
\* the number of elements of the source and No_NA is true exactly when none
\* of them is null, materialized or not.  IsMaterialized reads the slot only.
C18_DescribingDoesNotMaterialize ==
  [][(last'.op \in {"Length", "No_NA", "Inspect"}) =>
       /\ ~last'.error
       /\ last'.allocs = 0
       /\ alt' = alt
       /\ IsMaterialized(alt') = IsMaterialized(alt)
       /\ Representation(alt') = Representation(alt)
       /\ last'.op = "Length" => last'.value = Cardinality(Places)
       /\ last'.op = "No_NA" => (last'.value <=> Places = NonNull)
       /\ last'.op = "Inspect" => last'.value[4] = Cardinality(Places)]_vars

\* No_NA is FALSE on an unmaterialized string vector with a null, TRUE on a
\* materialized factor without
C18_Witness ==
  \/ /\ IsString(alt) /\ last.op = "No_NA" /\ ~last.pre /\ ~IsMaterialized(alt)
     /\ null_count(Source) > 0 /\ last.value = FALSE
  \/ /\ IsFactor(alt) /\ last.op = "No_NA" /\ last.pre /\ IsMaterialized(alt)
     /\ null_count(Source) = 0 /\ last.value = TRUE

\* the class of the ALTREP vector for a type
ClassOf(type) ==
  CASE type = "double" -> "array_dbl_vector"
    [] type = "int32" -> "array_int_vector"
    [] type = "string" -> "array_string_vector"
    [] type = "large_string" -> "array_large_string_vector"
    [] type = "dictionary" -> "array_factor"
    [] OTHER -> ""

\* C19: MakeAltrepVector returns an ALTREP vector exactly when
\* arrow.use_altrep is on, the chunked array has an element, and its type is
\* double, int32, string, large_string, or dictionary with a dictionary of
\* strings; that vector is of the class of the type, over the chunked array,
\* and not materialized.  Otherwise it returns R_NilValue and wraps nothing.
C19_Dispatch ==
  (last.op = "MakeAltrepVector") =>
    LET type == Source.type
        supported ==
          \/ type \in {"double", "int32", "string", "large_string"}
          \/ type = "dictionary" /\ Source.value_type = "STRING"
        made == last.value # R_NilValue
    IN  /\ made <=> (last.flag /\ Cardinality(Places) >= 1 /\ supported)
        /\ made => /\ last.value = alt
                   /\ alt.class = ClassOf(type)
                   /\ ~IsMaterialized(alt)
        /\ ~made => alt.class = ""

\* a dictionary of int32 values, with elements and arrow.use_altrep on, is
\* declined
C19_Witness ==
  /\ last.op = "MakeAltrepVector" /\ last.flag /\ last.value = R_NilValue
  /\ Source.type = "dictionary" /\ Source.value_type = "INT32"
  /\ length(Source) = 2 /\ alt.class = ""

\* the NA of the elements of the vector
Sentinel ==
  CASE IsString(alt) -> NA_STRING
    [] IsReal(alt) -> NA_REAL
    [] OTHER -> NA_INTEGER

\* C20: in every state, those inside a running Materialize included, the
\* cache slot is empty or holds a vector of as many elements as the source
\* with the NA of the type wherever the source is null; while Materialize
\* runs the slot is empty, so the Get_region it calls reads the source.
C20_CacheAbsentOrComplete ==
  /\ IsMaterialized(alt) =>
       /\ Len(Representation(alt).data) = Cardinality(Places)
       /\ \A i \in 0..(length(Source) - 1) :
            ~ValidAt(i) => Representation(alt).data[i + 1] = Sentinel
  /\ Running => ~IsMaterialized(alt)
  /\ (last.op = "Materialize" /\ last.error) => ~IsMaterialized(alt)

\* Materialize has filled the vector of a numeric source of two chunks with a
\* null, or half of the vector of a string source, and has not stored it
C20_Witness ==
  /\ last.op = "Materialize:fill" /\ ~IsMaterialized(alt)
  /\ \/ /\ IsPrimitive(alt) /\ num_chunks(Source) = 2 /\ length(Source) = 3
        /\ ~ValidAt(1) /\ last.n = 3 /\ last.value.data[2] = Sentinel
     \/ /\ IsString(alt) /\ length(Source) = 3 /\ last.n = 1

\* the code of element i of a factor: the index the chunk holds, taken through
\* the transpose buffer of the chunk that owns the element, from 1
CodeAt(i) ==
  LET r == ArrayResolve(Source, i)
      index == r.array_.values[r.index_ + 1]
  IN  IF WasUnified(alt) THEN alt.data2.cadr.data[r.position_ + 1][index + 1] + 1
      ELSE index + 1

\* C21: on a factor Get_region(start, n), for 0 <= start <= length, returns
\* min(n, length - start), writes that many elements, and element k is
\* Elt(start + k): NA at a null, otherwise the code through the transpose
\* buffer of the chunk that owns the element, which names the element's label
\* in the levels, wherever the window starts and whatever chunks it crosses.
C21_FactorRegionIsElts ==
  (IsFactor(alt) /\ last.op = "Get_region") =>
    LET count == Min2(last.n, length(Source) - last.i)
    IN  /\ last.value.ncopy = count
        /\ Len(last.value.buf) = count
        /\ \A k \in 0..(count - 1) :
             /\ last.value.buf[k + 1] = Factor_Elt(alt, last.i + k).value
             /\ last.value.buf[k + 1] =
                  IF ValidAt(last.i + k) THEN CodeAt(last.i + k) ELSE NA_INTEGER
             /\ ValidAt(last.i + k) =>
                  alt.attrib.levels[last.value.buf[k + 1]] = LabelAt(last.i + k)

\* dictionaries {a, b} and {b, a}, chunks of 1 and 2 elements: the window
\* starts at 1, in the second chunk, whose indices 0, 1 become the codes 2, 1
C21_Witness ==
  /\ IsFactor(alt) /\ WasUnified(alt) /\ last.op = "Get_region" /\ ~last.pre
  /\ num_chunks(Source) = 2 /\ ArrayLength(Source.chunks[1]) = 1
  /\ Source.chunks[1].dictionary = <<"a", "b">>
  /\ Source.chunks[2].dictionary = <<"b", "a">>
  /\ Source.chunks[2].valid = <<TRUE, TRUE>> /\ Source.chunks[2].values = <<0, 1>>
  /\ last.i = 1 /\ last.n = 2 /\ last.value.buf = <<2, 1>>

\* C22: Elt on a factor returns NA_INTEGER where the source is null, and
\* otherwise the index the chunk holds, taken through the transpose buffer of
\* that chunk if the dictionaries were unified and as it is if not, plus one;
\* so a code that is not NA lies in 1..(number of levels) and names the
\* element's label, for every integer type of the indices, materialized or not.
C22_FactorEltCode ==
  IsFactor(alt) =>
    /\ \A i \in 0..(length(Source) - 1) :
         LET code == Factor_Elt(alt, i).value
         IN  IF ValidAt(i)
               THEN /\ code = CodeAt(i)
                    /\ code \in 1..Len(alt.attrib.levels)
                    /\ code # NA_INTEGER
                    /\ alt.attrib.levels[code] = LabelAt(i)
               ELSE code = NA_INTEGER
    /\ last.op = "Elt" =>
         /\ ~last.error
         /\ last.value = IF ValidAt(last.i) THEN CodeAt(last.i) ELSE NA_INTEGER

\* indices of 16 bits without sign, one dictionary for both chunks: Elt read
\* the index 1 in the second chunk of a factor not materialized, the code is 2
C22_Witness ==
  /\ IsFactor(alt) /\ ~WasUnified(alt) /\ Source.index_type = "UINT16"
  /\ last.op = "Elt" /\ ~last.pre /\ ~IsMaterialized(alt)
  /\ num_chunks(Source) = 2 /\ ArrayLength(Source.chunks[1]) = 1
  /\ length(Source) = 3 /\ last.i = 2 /\ ValidAt(2)
  /\ Source.chunks[2].values[2] = 1 /\ ~ValidAt(1)
  /\ last.value = 2 /\ Factor_Elt(alt, 1).value = NA_INTEGER

\* C23: Elt on a string vector that is not materialized leaves the object as
\* it was, the cache absent, whether the conversion returns, raises on a nul
\* byte (arrow.skip_nul off) or strips it and warns (arrow.skip_nul on); it
\* raises exactly for an element with a nul byte when the option is off, so
\* the elements without one are still read.
C23_StringEltWritesNothing ==
  [][(IsString(alt) /\ last'.op = "Elt" /\ skip_nul' = skip_nul
        /\ ~IsMaterialized(alt)) =>
       /\ alt' = alt
       /\ ~IsMaterialized(alt')
       /\ last'.allocs = 0
       /\ last'.error <=> (~skip_nul /\ last'.i \in WithNul)
       /\ ~last'.error => last'.value = Converted(last'.i)
       /\ last'.warnings = IF skip_nul /\ last'.i \in WithNul THEN 1 ELSE 0]_vars

\* with the option off, Elt returned element 1 of a vector whose element 0
\* holds a nul byte, and Elt of element 0 raises; nothing is cached
C23_Witness ==
  /\ IsString(alt) /\ ~skip_nul /\ ~IsMaterialized(alt)
  /\ length(Source) = 2 /\ WithNul = {0} /\ ValidAt(1)
  /\ last.op = "Elt" /\ last.i = 1 /\ ~last.error /\ ~last.pre
  /\ last.value = Converted(1)
  /\ String_Elt(alt, 0, skip_nul).error

\* C24: when two invocations of Materialize on one object that is not
\* materialized are interleaved between the test, the filling and the store,
\* SetRepresentation is called at most once, a filled slot keeps its vector,
\* and two invocations that return hand back the same vector.
C24_PublishedOnce ==
  last.op = "Materialize:two" =>
    /\ last.n <= 1
    /\ (last.value[1].pc = "done" /\ last.value[2].pc = "done"
          /\ ~last.value[1].error /\ ~last.value[2].error) =>
         /\ last.value[1].ret = last.value[2].ret
         /\ last.value[1].ret = Representation(alt)

\* the number of elements in the chunks before chunk p (from 0)
Before(p) == SumOver([c \in 1..num_chunks(Source) |-> ArrayLength(Source.chunks[c])], p)

\* C25: for every index i below the length, ArrayResolve gives the position p
\* of a chunk and an index j in it with (elements before chunk p) + j = i and
\* 0 <= j < length of chunk p, array_ being that chunk, also behind chunks of
\* length 0; the Elt that resolves an index leaves the object as it was.
C25_ResolveLocates ==
  [][(last'.op = "Elt" /\ skip_nul' = skip_nul) =>
       /\ alt' = alt
       /\ \A i \in 0..(length(Source) - 1) :
            LET r == ArrayResolve(Source, i)
            IN  /\ r.position_ \in 0..(num_chunks(Source) - 1)
                /\ r.array_ = Source.chunks[r.position_ + 1]
                /\ r.index_ >= 0
                /\ r.index_ < ArrayLength(Source.chunks[r.position_ + 1])
                /\ Before(r.position_) + r.index_ = i
       /\ ArrayResolve(GetChunkedArray(alt'), last'.i) = ArrayResolve(Source, last'.i)]_vars

\* Elt read index 1 of a vector whose first chunk is empty: chunk 1, index 1
C25_Witness ==
  /\ last.op = "Elt" /\ last.i = 1 /\ ~IsMaterialized(alt)
  /\ num_chunks(Source) = 2 /\ ArrayLength(Source.chunks[1]) = 0
  /\ ArrayLength(Source.chunks[2]) = 2
  /\ ArrayResolve(Source, 1).position_ = 1 /\ ArrayResolve(Source, 1).index_ = 1

\* C26: every call leaves the chunked array in data1, the class of the object
\* and its attributes (the levels and class of a factor) as they were, and on
\* a factor the transpose buffers in CADR(data2); what a call changes of the
\* object is the representation only.
C26_OnlyTheCacheChanges ==
  [][/\ GetChunkedArray(alt') = GetChunkedArray(alt)
     /\ alt'.class = alt.class
     /\ alt'.attrib = alt.attrib
     /\ IsFactor(alt) =>
          /\ alt'.data2.cadr = alt.data2.cadr
          /\ WasUnified(alt') = WasUnified(alt)
     /\ alt' # alt => Representation(alt') # Representation(alt)]_vars

\* a factor with unified dictionaries was materialized by Duplicate: levels
\* and transpose buffers are those Make built
C26_Witness ==
  /\ IsFactor(alt) /\ WasUnified(alt) /\ IsMaterialized(alt)
  /\ last.op = "Duplicate" /\ ~last.pre
  /\ alt.attrib = Factor_Make(Source).alt.attrib
  /\ alt.data2.cadr = Factor_Make(Source).alt.data2.cadr
  /\ alt.attrib.levels = <<"b", "a">>

\* C27: Sum of an int32 vector, when it returns the sum (no null is left
\* unskipped), returns it as an integer exactly when INT32_MIN < sum <=
\* INT32_MAX and as a double otherwise; the sum INT32_MIN comes back as the
\* double -2147483648, so an integer result is never NA_INTEGER.
C27_SumIsNeverTheSentinel ==
  (IsPrimitive(alt) /\ ~IsReal(alt) /\ last.op = "Sum" /\ ~Unskipped) =>
    /\ last.value.type = "INTSXP" <=>
         (WideLt(Wide(INT32_MIN), ExactSum) /\ ~WideLt(Wide(INT32_MAX), ExactSum))
    /\ last.value.type = "INTSXP" =>
         /\ last.value.ival # NA_INTEGER
         /\ Wide(last.value.ival) = ExactSum
    /\ last.value.type # "INTSXP" =>
         /\ last.value.type = "REALSXP"
         /\ last.value.rval = Double(ExactSum)
    /\ ExactSum = Wide(INT32_MIN) => last.value = Rf_ScalarReal(Double(Wide(NA_INTEGER)))

\* -2147483647 and -1 add up to INT32_MIN: Sum returned a double
C27_Witness ==
  /\ IsPrimitive(alt) /\ ~IsReal(alt) /\ last.op = "Sum" /\ ~Unskipped
  /\ length(Source) = 2 /\ null_count(Source) = 0
  /\ ExactSum = Wide(INT32_MIN)
  /\ last.value.type = "REALSXP" /\ last.value.rval = Double(Wide(INT32_MIN))

\* C28: on a factor or a string vector Dataptr_or_null returns nullptr and
\* leaves the cache absent when the vector is not materialized, whatever the
\* chunks and nulls of the source, and the address of the cached vector when
\* it is; Dataptr materializes and returns the address of the cached vector,
\* or raises where Materialize does; neither hands out an address in the
\* buffers of the source.
C28_NoPointerIntoTheSource ==
  [][(skip_nul' = skip_nul /\ (IsFactor(alt) \/ IsString(alt))) =>
       /\ last'.op = "Dataptr_or_null" =>
            /\ ~last'.error
            /\ alt' = alt
            /\ last'.allocs = 0
            /\ last'.value =
                 IF IsMaterialized(alt) THEN DATAPTR(Representation(alt)) ELSE nullptr
            /\ last'.value.base # "chunk"
       /\ last'.op = "Dataptr" =>
            IF last'.error
              THEN /\ IsString(alt) /\ ~IsMaterialized(alt) /\ ~skip_nul
                   /\ WithNul # {}
                   /\ alt' = alt
              ELSE /\ IsMaterialized(alt')
                   /\ IsMaterialized(alt) => alt' = alt
                   /\ last'.value = DATAPTR(Representation(alt'))
                   /\ last'.value.base # "chunk"]_vars

\* a factor of one chunk without a null, not materialized: Dataptr_or_null
\* gave nullptr and the factor is still not materialized
C28_Witness ==
  /\ IsFactor(alt) /\ num_chunks(Source) = 1 /\ null_count(Source) = 0
  /\ last.op = "Dataptr_or_null" /\ ~last.pre /\ ~IsMaterialized(alt)
  /\ last.value = nullptr

====
